---- MODULE Spec2Model ----
(***************************************************************************)
(* A model of cura/BuildVolume.py: the edge-clearance size, the disallowed *)
(* areas, the build-volume bounds and the boundary check of scene nodes.   *)
(*                                                                         *)
(* Lengths are integers in units of 0.1 mm (0.1 mm = 1, 6.5 mm = 65).      *)
(* A polygon is the set of its vertices and stands for their convex hull.  *)
(* Every method of BuildVolume is an operator from a context (the object's *)
(* fields, the node flags, the scene's maximum bounds, the steps taken and *)
(* the exception raised, if any) to the context the method leaves behind.  *)
(***************************************************************************)
EXTENDS Integers, Sequences, FiniteSets, TLC

VARIABLES
    settings,        \* the settings store: global stack, extruder stacks, extruder manager
    scene,           \* the scene graph below the root: the nodes and their decorations
    bv,              \* the fields of the BuildVolume object
    outside,         \* node -> CuraSceneNode._outside_buildarea
    maximum_bounds,  \* Scene._maximum_bounds
    last,            \* what ran last: which call, its steps, its exception, what it gave back
    toolbox,         \* the fields of the Toolbox object, and the network replies it waits for
    machine          \* the fields of the Machine object, and the container stacks it manages

vars == <<settings, scene, bv, outside, maximum_bounds, last, toolbox, machine>>

None == "None"

----------------------------------------------------------------------------
(* Numbers *)

Max2(a, b) == IF a >= b THEN a ELSE b

Min2(a, b) == IF a <= b THEN a ELSE b

Abs(a) == IF a >= 0 THEN a ELSE -a

\* max() of a non-empty collection of numbers
MaxOf(S) == CHOOSE m \in S : \A x \in S : x <= m

MinOf(S) == CHOOSE m \in S : \A x \in S : m <= x

\* the elements of a sequence
Range(s) == {s[i] : i \in 1..Len(s)}

RECURSIVE Flatten(_)
\* list.extend over a sequence of lists
Flatten(ss) == IF ss = <<>> THEN <<>> ELSE Head(ss) \o Flatten(Tail(ss))

----------------------------------------------------------------------------
(* UM.Math.Polygon, reduced to what BuildVolume uses of it *)

Pt(x, y) == <<x, y>>

Cross(o, a, b) == (a[1] - o[1]) * (b[2] - o[2]) - (a[2] - o[2]) * (b[1] - o[1])

\* Polygon.approximatedCircle(radius), with 4 segments in place of 32
approximatedCircle(radius) ==
    IF radius = 0 THEN {Pt(0, 0)}
    ELSE {Pt(radius, 0), Pt(0, radius), Pt(-radius, 0), Pt(0, -radius)}

\* Polygon.translate(x, y)
translate(poly, x, y) == {Pt(p[1] + x, p[2] + y) : p \in poly}

\* <<p, q>> is a side of the hull of poly, the hull lying to its left
HullSides(poly) ==
    {pq \in poly \X poly : pq[1] # pq[2] /\ \A r \in poly : Cross(pq[1], pq[2], r) >= 0}

Dot(o, a, b) == (a[1] - o[1]) * (b[1] - o[1]) + (a[2] - o[2]) * (b[2] - o[2])

\* r is not to the right of the ray from p through q, and not beyond q on it
LeftOf(p, q, r) ==
    LET c == Cross(p, q, r)
    IN  c > 0 \/ (c = 0 /\ Dot(q, p, r) >= 0)

\* the lowest point, the leftmost of them: a corner of the hull
Lowest(points) ==
    CHOOSE p \in points : \A r \in points : p[2] < r[2] \/ (p[2] = r[2] /\ p[1] <= r[1])

RECURSIVE wrapHull(_, _, _)
\* the corners met walking around the hull from corner p until start is met again
wrapHull(points, start, p) ==
    LET next == CHOOSE q \in points \ {p} : \A r \in points : LeftOf(p, q, r)
    IN  IF next = start THEN {p} ELSE {p} \cup wrapHull(points, start, next)

\* the corners of the convex hull of a set of points
ConvexHull(points) ==
    IF Cardinality(points) <= 2 THEN points
    ELSE wrapHull(points, Lowest(points), Lowest(points))

\* Polygon.getMinkowskiHull(other): the hull of the pairwise sums
getMinkowskiHull(poly, other) ==
    ConvexHull({Pt(p[1] + q[1], p[2] + q[2]) : p \in poly, q \in other})

\* the bounding rectangles of two polygons share more than their border
BoundsOverlap(a, b) ==
    /\ \E p \in a : \E q \in b : p[1] < q[1]
    /\ \E p \in a : \E q \in b : q[1] < p[1]
    /\ \E p \in a : \E q \in b : p[2] < q[2]
    /\ \E p \in a : \E q \in b : q[2] < p[2]

\* Polygon.intersectsPolygon(other) is not None: the areas overlap, that is, no side
\* of either hull has the other polygon wholly on its outer side
intersectsPolygon(a, b) ==
    /\ BoundsOverlap(a, b)
    /\ LET sides_a == HullSides(a)
           sides_b == HullSides(b)
       IN  /\ sides_a # {}
           /\ sides_b # {}
           /\ \A pq \in sides_a : \E r \in b : Cross(pq[1], pq[2], r) > 0
           /\ \A pq \in sides_b : \E r \in a : Cross(pq[1], pq[2], r) > 0

\* an axis-aligned rectangle, as the settings give disallowed areas
Rect(x0, y0, x1, y1) == {Pt(x0, y0), Pt(x1, y0), Pt(x1, y1), Pt(x0, y1)}

----------------------------------------------------------------------------
(* The settings store.  An extruder stack is named by its id; the global   *)
(* stack, which answers every setting key too, is named "global".          *)

ExtruderIds == {"e0", "e1"}

GlobalId == "global"

AdhesionTypes == {"skirt", "brim", "raft", "none"}

\* ContainerStack.getProperty(key, "value") of the stack with this id
getProperty(stack_id, key) ==
    IF stack_id = GlobalId THEN settings.global[key] ELSE settings.ext[stack_id][key]

\* ExtruderManager.getUsedExtruderStacks(), in the order the manager lists them
getUsedExtruderStacks == settings.used

\* ExtruderManager.getActiveExtruderStack(): None on a machine without extruder stacks
getActiveExtruderStack == settings.active

\* x * factor / 100.0
Percent(x, factor) == (x * factor) \div 100

----------------------------------------------------------------------------
(* BuildVolume.getEdgeDisallowedSize and its helper *)

\* what a call gives back: a value, or the exception it raised
Returned(v) == [raised |-> "none", value |-> v]

Raised(kind) == [raised |-> kind, value |-> 0]

\* the values of one setting on every extruder of the machine
\* (a falsy numeric value reads as 0, which an integer 0 already is)
_getSettingFromAllExtruders(setting_key) ==
    {settings.ext[e][setting_key] : e \in settings.extruders}

RECURSIVE lineWidthSum(_)
\* the loop "for extruder_stack in used_extruders: bed_adhesion_size += ..."
lineWidthSum(stacks) ==
    IF stacks = <<>> THEN 0
    ELSE Percent(getProperty(Head(stacks), "skirt_brim_line_width"),
                 getProperty(Head(stacks), "initial_layer_line_width_factor"))
         + lineWidthSum(Tail(stacks))

\* a skirt size that keeps the line of the extruder that draws the skirt counted twice
bedAdhesionSizeDoubleCounted(adhesion_type, used) ==
    LET width  == getProperty(GlobalId, "skirt_brim_line_width")
        factor == getProperty(GlobalId, "initial_layer_line_width_factor")
    IN  CASE adhesion_type = "skirt" ->
               getProperty(GlobalId, "skirt_gap")
                 + Percent(width * getProperty(GlobalId, "skirt_line_count"), factor)
                 + lineWidthSum(used)
          [] adhesion_type = "brim" ->
               Percent(width * getProperty(GlobalId, "brim_line_count"), factor)
                 + lineWidthSum(used)
          [] adhesion_type = "raft" -> getProperty(GlobalId, "raft_margin")
          [] adhesion_type = "none" -> 0

\* a skirt size whose lines are laid inside the gap
bedAdhesionSizeInwards(adhesion_type, used) ==
    LET width  == getProperty(GlobalId, "skirt_brim_line_width")
        factor == getProperty(GlobalId, "initial_layer_line_width_factor")
    IN  CASE adhesion_type = "skirt" ->
               getProperty(GlobalId, "skirt_gap")
                 - Percent(width * getProperty(GlobalId, "skirt_line_count"), factor)
                 + lineWidthSum(used)
                 - Percent(width, factor)
          [] adhesion_type = "brim" ->
               Percent(width * getProperty(GlobalId, "brim_line_count"), factor)
                 + lineWidthSum(used)
                 - Percent(width, factor)
          [] adhesion_type = "raft" -> getProperty(GlobalId, "raft_margin")
          [] adhesion_type = "none" -> 0

\* bed_adhesion_size for a known adhesion type
bedAdhesionSize(adhesion_type, used) ==
    LET width  == getProperty(GlobalId, "skirt_brim_line_width")
        factor == getProperty(GlobalId, "initial_layer_line_width_factor")
    IN  CASE adhesion_type = "skirt" ->
               getProperty(GlobalId, "skirt_gap")
                 + Percent(width * getProperty(GlobalId, "skirt_line_count"), factor)
                 + lineWidthSum(used)
                 - Percent(width, factor)
          [] adhesion_type = "brim" ->
               Percent(width * getProperty(GlobalId, "brim_line_count"), factor)
                 + lineWidthSum(used)
                 - Percent(width, factor)
          [] adhesion_type = "raft" -> getProperty(GlobalId, "raft_margin")
          [] adhesion_type = "none" -> 0

\* support_expansion
supportExpansion ==
    IF getProperty(GlobalId, "support_enable") /\ getProperty(GlobalId, "support_offset") # 0
    THEN getProperty(GlobalId, "support_offset")
    ELSE 0

\* farthest_shield_distance
farthestShieldDistance ==
    LET draft == IF getProperty(GlobalId, "draft_shield_enabled")
                 THEN Max2(0, getProperty(GlobalId, "draft_shield_dist")) ELSE 0
    IN  IF getProperty(GlobalId, "ooze_shield_enabled")
        THEN Max2(draft, getProperty(GlobalId, "ooze_shield_dist")) ELSE draft

\* a wall distance that does not start from 0
moveFromWallRadiusUnfloored(used) ==
    LET wipe == MaxOf(_getSettingFromAllExtruders("infill_wipe_dist"))
        avoiding == {e \in Range(used) : getProperty(e, "travel_avoid_other_parts")}
    IN  MaxOf({wipe} \cup {getProperty(e, "travel_avoid_distance") : e \in avoiding})

\* move_from_wall_radius
moveFromWallRadius(used) ==
    LET wipe == Max2(0, MaxOf(_getSettingFromAllExtruders("infill_wipe_dist")))
        avoiding == {e \in Range(used) : getProperty(e, "travel_avoid_other_parts")}
    IN  MaxOf({wipe} \cup {getProperty(e, "travel_avoid_distance") : e \in avoiding})

\* a border size that adds the three margins up
borderSizeSummed(move, shield, adhesion) == move + shield + adhesion

\* border_size = max(move_from_wall_radius, support + shield, support + adhesion)
borderSize(move, shield, adhesion) == Max2(move, Max2(shield, adhesion))

\* an edge size that takes an unknown adhesion type for "none"
getEdgeDisallowedSizeDefaulting(self) ==
    IF self.global_container_stack = None \/ settings.extruders = {} THEN Returned(0)
    ELSE IF getProperty(GlobalId, "print_sequence") = "one_at_a_time" THEN Returned(1)
    ELSE
      LET used == getUsedExtruderStacks
          adhesion_type == IF getProperty(GlobalId, "adhesion_type") \in AdhesionTypes
                           THEN getProperty(GlobalId, "adhesion_type") ELSE "none"
      IN  Returned(borderSize(moveFromWallRadius(used),
                              supportExpansion + farthestShieldDistance,
                              supportExpansion + bedAdhesionSize(adhesion_type, used)))

\* an edge size that reads the adhesion type before the print sequence
getEdgeDisallowedSizeAdhesionFirst(self) ==
    IF self.global_container_stack = None \/ settings.extruders = {} THEN Returned(0)
    ELSE IF getProperty(GlobalId, "adhesion_type") \notin AdhesionTypes THEN Raised("Exception")
    ELSE IF getProperty(GlobalId, "print_sequence") = "one_at_a_time" THEN Returned(1)
    ELSE
      LET used == getUsedExtruderStacks
      IN  Returned(borderSize(moveFromWallRadius(used),
                              supportExpansion + farthestShieldDistance,
                              supportExpansion
                                + bedAdhesionSize(getProperty(GlobalId, "adhesion_type"), used)))

getEdgeDisallowedSize(self) ==
    IF self.global_container_stack = None \/ settings.extruders = {} THEN Returned(0)
    ELSE IF getProperty(GlobalId, "print_sequence") = "one_at_a_time" THEN Returned(1)
    ELSE IF getProperty(GlobalId, "adhesion_type") \notin AdhesionTypes THEN Raised("Exception")
    ELSE
      LET used == getUsedExtruderStacks
      IN  Returned(borderSize(moveFromWallRadius(used),
                              supportExpansion + farthestShieldDistance,
                              supportExpansion
                                + bedAdhesionSize(getProperty(GlobalId, "adhesion_type"), used)))

----------------------------------------------------------------------------
(* The disallowed areas *)

\* Setting for clearance around the prime
PRIME_CLEARANCE == 65

\* a dictionary keyed by the used extruders' ids, every entry the empty list
EmptyAreas(used_extruders) == [e \in Range(used_extruders) |-> <<>>]

\* the scene-space prime tower footprint
primeTowerArea ==
    LET prime_tower_size == getProperty(GlobalId, "prime_tower_size")
        centered == getProperty(GlobalId, "machine_center_is_zero")
        x0 == getProperty(GlobalId, "prime_tower_position_x")
        y0 == -getProperty(GlobalId, "prime_tower_position_y")
        prime_tower_x == IF centered THEN x0 ELSE x0 - getProperty(GlobalId, "machine_width") \div 2
        prime_tower_y == IF centered THEN y0 ELSE y0 + getProperty(GlobalId, "machine_depth") \div 2
        radius == prime_tower_size \div 2
        area == IF getProperty(GlobalId, "prime_tower_circular")
                THEN translate(approximatedCircle(radius), prime_tower_x - radius, prime_tower_y - radius)
                ELSE Rect(prime_tower_x - prime_tower_size, prime_tower_y - prime_tower_size,
                          prime_tower_x, prime_tower_y)
    IN  getMinkowskiHull(area, approximatedCircle(0))

_computeDisallowedAreasPrinted(used_extruders) ==
    IF getProperty(GlobalId, "prime_tower_enable")
    THEN [e \in Range(used_extruders) |-> <<primeTowerArea>>]
    ELSE EmptyAreas(used_extruders)

\* the prime areas of one extruder
primeBlobAreas(border_size, extruder) ==
    LET prime_x == getProperty(extruder, "extruder_prime_pos_x")
        prime_y == -getProperty(extruder, "extruder_prime_pos_y")
        centered == getProperty(GlobalId, "machine_center_is_zero")
        x == IF centered THEN prime_x ELSE prime_x - getProperty(GlobalId, "machine_width") \div 2
        y == IF centered THEN prime_y ELSE prime_y + getProperty(GlobalId, "machine_depth") \div 2
    IN  IF (prime_x = 0 /\ prime_y = 0) \/ ~getProperty(extruder, "prime_blob_enable")
        THEN <<>>
        ELSE <<translate(getMinkowskiHull(approximatedCircle(PRIME_CLEARANCE),
                                          approximatedCircle(border_size)), x, y)>>

_computeDisallowedAreasPrimeBlob(border_size, used_extruders) ==
    [e \in Range(used_extruders) |-> primeBlobAreas(border_size, e)]

\* list(map(f, list))
MapSeq(f(_), s) == [i \in 1..Len(s) |-> f(s[i])]

\* the machine's own disallowed polygons, dilated by the border size
machineDisallowedPolygons(border_size) ==
    LET dilate(area) == getMinkowskiHull(area, approximatedCircle(border_size))
    IN  MapSeq(dilate, getProperty(GlobalId, "machine_disallowed_areas"))

\* the nozzle offset of a stack, in scene space
nozzleOffset(stack) ==
    Pt(getProperty(stack, "machine_nozzle_offset_x"), -getProperty(stack, "machine_nozzle_offset_y"))

\* unreachable borders that do not ask whether the machine offsets its nozzles
unreachableBorderAlwaysOffsetting(extruder_id) ==
    LET own == nozzleOffset(extruder_id)
        others == settings.extruders \ {extruder_id}
        dx == {nozzleOffset(o)[1] - own[1] : o \in others}
        dy == {nozzleOffset(o)[2] - own[2] : o \in others}
    IN  [left   |-> MinOf({0} \cup dx), right  |-> MaxOf({0} \cup dx),
         top    |-> MinOf({0} \cup dy), bottom |-> MaxOf({0} \cup dy)]

\* left, right, top and bottom unreachable border of one extruder
unreachableBorder(extruder_id) ==
    LET own == nozzleOffset(extruder_id)
        others == IF getProperty(GlobalId, "nozzle_offsetting_for_disallowed_areas")
                  THEN settings.extruders \ {extruder_id} ELSE {}
        dx == {nozzleOffset(o)[1] - own[1] : o \in others}
        dy == {nozzleOffset(o)[2] - own[2] : o \in others}
    IN  [left   |-> MinOf({0} \cup dx), right  |-> MaxOf({0} \cup dx),
         top    |-> MinOf({0} \cup dy), bottom |-> MaxOf({0} \cup dy)]

\* sin and cos of n quarter turns
QuarterSin(n) == <<0, 1, 0, -1>>[(n % 4) + 1]

QuarterCos(n) == <<1, 0, -1, 0>>[(n % 4) + 1]

\* a border of four full rectangles, the corners covered twice
rectangularBorderSquareCorners(border_size, unreachable, hw, hd) ==
    LET l == border_size - unreachable.left
        r == border_size + unreachable.right
        b == border_size + unreachable.bottom
        t == border_size - unreachable.top
    IN  (IF l > 0 THEN <<Rect(-hw, -hd, -hw + l, hd)>> ELSE <<>>)
          \o (IF r > 0 THEN <<Rect(hw - r, -hd, hw, hd)>> ELSE <<>>)
          \o (IF b > 0 THEN <<Rect(-hw, hd - b, hw, hd)>> ELSE <<>>)
          \o (IF t > 0 THEN <<Rect(-hw, -hd, hw, -hd + t)>> ELSE <<>>)

\* the border around the edge of a rectangular build volume
rectangularBorder(border_size, unreachable, hw, hd) ==
    LET l == border_size - unreachable.left
        r == border_size + unreachable.right
        b == border_size + unreachable.bottom
        t == border_size - unreachable.top
        left   == {Pt(-hw, -hd), Pt(-hw, hd), Pt(-hw + l, hd - b), Pt(-hw + l, -hd + t)}
        right  == {Pt(hw, hd), Pt(hw, -hd), Pt(hw - r, -hd + t), Pt(hw - r, hd - b)}
        bottom == {Pt(-hw, hd), Pt(hw, hd), Pt(hw - r, hd - b), Pt(-hw + l, hd - b)}
        top    == {Pt(hw, -hd), Pt(-hw, -hd), Pt(-hw + l, -hd + t), Pt(hw - r, -hd + t)}
    IN  (IF l > 0 THEN <<left>> ELSE <<>>) \o (IF r > 0 THEN <<right>> ELSE <<>>)
          \o (IF b > 0 THEN <<bottom>> ELSE <<>>) \o (IF t > 0 THEN <<top>> ELSE <<>>)

\* the border of an elliptic build volume, with 4 sections in place of 32
ellipticBorder(border_size, hw, hd) ==
    LET corner(i) == <<Pt(-hw, hd), Pt(-hw, -hd), Pt(hw, -hd), Pt(hw, hd)>>[i + 1]
        arc(n) == Pt(-(hw - border_size) * QuarterSin(n), (hd - border_size) * QuarterCos(n))
        section(i) == {corner(i - 1), arc(i - 1), arc(i)}
    IN  MapSeq(section, <<1, 2, 3, 4>>)
          \o (IF border_size > 0
              THEN << {Pt(-hw, -hd), Pt(-hw, hd), Pt(-hw + border_size, 0)},
                      {Pt(-hw, hd), Pt(hw, hd), Pt(0, hd - border_size)},
                      {Pt(hw, hd), Pt(hw, -hd), Pt(hw - border_size, 0)},
                      {Pt(hw, -hd), Pt(-hw, -hd), Pt(0, -hd + border_size)} >>
              ELSE <<>>)

\* the static areas of one extruder
staticAreas(self, border_size, extruder_id) ==
    LET offset == nozzleOffset(extruder_id)
        shift(polygon) == translate(polygon, offset[1], offset[2])
        half_machine_width == getProperty(GlobalId, "machine_width") \div 2
        half_machine_depth == getProperty(GlobalId, "machine_depth") \div 2
    IN  MapSeq(shift, machineDisallowedPolygons(border_size))
          \o (IF self.shape # "elliptic"
              THEN rectangularBorder(border_size, unreachableBorder(extruder_id),
                                     half_machine_width, half_machine_depth)
              ELSE ellipticBorder(border_size, half_machine_width, half_machine_depth))

_computeDisallowedAreasStatic(self, border_size, used_extruders) ==
    [e \in Range(used_extruders) |-> staticAreas(self, border_size, e)]

\* the nozzle-declared areas of one extruder, dilated (brim) or as declared (no brim)
nozzleAreas(border_size, extruder) ==
    LET dilate(polygon) == getMinkowskiHull(polygon, approximatedCircle(border_size))
        declared == getProperty(extruder, "nozzle_disallowed_areas")
    IN  [brim |-> MapSeq(dilate, declared), no_brim |-> declared]

\* some polygon of one list intersects some polygon of the other
AnyIntersects(polys, areas) ==
    \E i \in 1..Len(polys) : \E j \in 1..Len(areas) : intersectsPolygon(polys[i], areas[j])

RECURSIVE placePrimeTowerBrimOnly(_, _, _)
\* a placement that merges the tower into the brim-aware sets only
placePrimeTowerBrimOnly(ids, prime_tower_areas, acc) ==
    IF ids = <<>> THEN acc
    ELSE
      LET e == Head(ids)
          collision == acc.collision \/ AnyIntersects(prime_tower_areas[e], acc.areas[e])
      IN  placePrimeTowerBrimOnly(Tail(ids), prime_tower_areas,
            IF ~collision
            THEN [acc EXCEPT !.areas[e] = @ \o prime_tower_areas[e]]
            ELSE [acc EXCEPT !.collision = TRUE,
                             !.errors = @ \o prime_tower_areas[e]])

RECURSIVE placePrimeTower(_, _, _)
\* the loop "for extruder_id in prime_tower_areas", prime_tower_collision carried along
placePrimeTower(ids, prime_tower_areas, acc) ==
    IF ids = <<>> THEN acc
    ELSE
      LET e == Head(ids)
          collision == acc.collision \/ AnyIntersects(prime_tower_areas[e], acc.areas[e])
      IN  placePrimeTower(Tail(ids), prime_tower_areas,
            IF ~collision
            THEN [acc EXCEPT !.areas[e] = @ \o prime_tower_areas[e],
                             !.no_brim[e] = @ \o prime_tower_areas[e]]
            ELSE [acc EXCEPT !.collision = TRUE,
                             !.errors = @ \o prime_tower_areas[e]])

\* the extruders the areas are drawn for
usedOrFallback ==
    IF getUsedExtruderStacks # <<>> THEN getUsedExtruderStacks
    ELSE IF getActiveExtruderStack # None THEN <<getActiveExtruderStack>>
    ELSE <<GlobalId>>

\* a method that ran to its end notes the step it took
Step(c, name) == [c EXCEPT !.log = Append(@, name)]

Raise(c, kind) == [c EXCEPT !.raised = kind]

\* the lists a dictionary of per-extruder lists holds, in the order of its keys
Joined(ids, areas) == Flatten([i \in 1..Len(ids) |-> areas[ids[i]]])

\* areas that are added to the lists of the call before
disallowedAreasAccumulated(self, disallowed_border_size, used_extruders) ==
    LET static == _computeDisallowedAreasStatic(self, disallowed_border_size, used_extruders)
    IN  [self EXCEPT !.disallowed_areas = @ \o Joined(used_extruders, static),
                     !.disallowed_areas_no_brim = @ \o Joined(used_extruders, static)]

\* the local `collision` of one extruder: its prime polygon intersects one of its static
\* areas without brim, or a prime polygon of another extruder; nothing reads it
primeCollision(extruder_id, prime_areas, prime_disallowed_areas) ==
    \/ AnyIntersects(prime_areas[extruder_id], prime_disallowed_areas[extruder_id])
    \/ \E other_extruder_id \in DOMAIN prime_areas \ {extruder_id} :
          AnyIntersects(prime_areas[extruder_id], prime_areas[other_extruder_id])

\* areas that leave out the prime polygons that collide, and list them as errors
disallowedAreasWithoutCollidingPrimes(self, disallowed_border_size, used_extruders) ==
    LET static == _computeDisallowedAreasStatic(self, disallowed_border_size, used_extruders)
        prime_areas == _computeDisallowedAreasPrimeBlob(disallowed_border_size, used_extruders)
        static_no_brim == _computeDisallowedAreasStatic(self, 0, used_extruders)
        accepted == [e \in Range(used_extruders) |->
            IF primeCollision(e, prime_areas, static_no_brim) THEN <<>> ELSE prime_areas[e]]
        rejected == [e \in Range(used_extruders) |->
            IF primeCollision(e, prime_areas, static_no_brim) THEN prime_areas[e] ELSE <<>>]
        errors == Joined(used_extruders, rejected)
    IN  [self EXCEPT !.error_areas = errors,
                     !.has_errors = Len(errors) > 0,
                     !.disallowed_areas =
                         Joined(used_extruders, [e \in Range(used_extruders) |->
                             static[e] \o accepted[e]
                               \o nozzleAreas(disallowed_border_size, e).brim]),
                     !.disallowed_areas_no_brim =
                         Joined(used_extruders, [e \in Range(used_extruders) |->
                             static_no_brim[e] \o accepted[e]
                               \o nozzleAreas(disallowed_border_size, e).no_brim])]

\* areas that hold the prime tower also when a single extruder is used
disallowedAreasTowerAlways(self, disallowed_border_size, used_extruders) ==
    LET static == _computeDisallowedAreasStatic(self, disallowed_border_size, used_extruders)
        prime_areas == _computeDisallowedAreasPrimeBlob(disallowed_border_size, used_extruders)
        static_no_brim == _computeDisallowedAreasStatic(self, 0, used_extruders)
        result_areas == [e \in Range(used_extruders) |->
            static[e] \o prime_areas[e] \o nozzleAreas(disallowed_border_size, e).brim]
        result_areas_no_brim == [e \in Range(used_extruders) |->
            static_no_brim[e] \o prime_areas[e] \o nozzleAreas(disallowed_border_size, e).no_brim]
        start == [collision |-> FALSE, areas |-> result_areas,
                  no_brim |-> result_areas_no_brim, errors |-> <<>>]
        placed == placePrimeTower(used_extruders,
                                  _computeDisallowedAreasPrinted(used_extruders), start)
    IN  [self EXCEPT !.error_areas = placed.errors,
                     !.has_errors = Len(placed.errors) > 0,
                     !.disallowed_areas = Joined(used_extruders, placed.areas),
                     !.disallowed_areas_no_brim = Joined(used_extruders, placed.no_brim)]

\* lines 475-542, once the border size is known
disallowedAreasFor(self, disallowed_border_size, used_extruders) ==
    LET static == _computeDisallowedAreasStatic(self, disallowed_border_size, used_extruders)
        prime_areas == _computeDisallowedAreasPrimeBlob(disallowed_border_size, used_extruders)
        static_no_brim == _computeDisallowedAreasStatic(self, 0, used_extruders)
        result_areas == [e \in Range(used_extruders) |->
            static[e] \o prime_areas[e] \o nozzleAreas(disallowed_border_size, e).brim]
        result_areas_no_brim == [e \in Range(used_extruders) |->
            static_no_brim[e] \o prime_areas[e] \o nozzleAreas(disallowed_border_size, e).no_brim]
        start == [collision |-> FALSE, areas |-> result_areas,
                  no_brim |-> result_areas_no_brim, errors |-> <<>>]
        placed == IF Len(used_extruders) > 1
                  THEN placePrimeTower(used_extruders,
                                       _computeDisallowedAreasPrinted(used_extruders), start)
                  ELSE start
    IN  [self EXCEPT !.error_areas = placed.errors,
                     !.has_errors = Len(placed.errors) > 0,
                     !.disallowed_areas = Joined(used_extruders, placed.areas),
                     !.disallowed_areas_no_brim = Joined(used_extruders, placed.no_brim)]

_updateDisallowedAreas(c) ==
    IF c.raised # "none" \/ c.bv.global_container_stack = None THEN c
    ELSE
      LET cleared == [c EXCEPT !.bv.error_areas = <<>>]
          edge == getEdgeDisallowedSize(c.bv)
      IN  IF edge.raised # "none" THEN Raise(cleared, edge.raised)
          ELSE Step([Step(cleared, "edge_size") EXCEPT
                       !.bv = disallowedAreasFor(cleared.bv, edge.value, usedOrFallback)],
                    "disallowed_areas")

----------------------------------------------------------------------------
(* Raft thickness, extra Z clearance and the build-volume bounds *)

\* a raft thickness that moves the build volume only when there is a raft
_updateRaftThicknessRaftOnly(c) ==
    IF c.raised # "none" THEN c
    ELSE IF c.bv.global_container_stack = None THEN Raise(c, "AttributeError")
    ELSE
      LET adhesion_type == getProperty(GlobalId, "adhesion_type")
          raft_thickness ==
              IF adhesion_type = "raft"
              THEN getProperty(GlobalId, "raft_base_thickness")
                     + getProperty(GlobalId, "raft_interface_thickness")
                     + getProperty(GlobalId, "raft_surface_layers")
                         * getProperty(GlobalId, "raft_surface_thickness")
                     + getProperty(GlobalId, "raft_airgap")
                     - getProperty(GlobalId, "layer_0_z_overlap")
              ELSE 0
      IN  Step([c EXCEPT !.bv.adhesion_type = adhesion_type,
                         !.bv.raft_thickness = raft_thickness,
                         !.bv.position_y = IF raft_thickness # 0 THEN -raft_thickness ELSE @],
               "raft_thickness")

_updateRaftThickness(c) ==
    IF c.raised # "none" THEN c
    ELSE IF c.bv.global_container_stack = None THEN Raise(c, "AttributeError")
    ELSE
      LET adhesion_type == getProperty(GlobalId, "adhesion_type")
          raft_thickness ==
              IF adhesion_type = "raft"
              THEN getProperty(GlobalId, "raft_base_thickness")
                     + getProperty(GlobalId, "raft_interface_thickness")
                     + getProperty(GlobalId, "raft_surface_layers")
                         * getProperty(GlobalId, "raft_surface_thickness")
                     + getProperty(GlobalId, "raft_airgap")
                     - getProperty(GlobalId, "layer_0_z_overlap")
              ELSE 0
      IN  Step([c EXCEPT !.bv.adhesion_type = adhesion_type,
                         !.bv.raft_thickness = raft_thickness,
                         !.bv.position_y = IF c.bv.raft_thickness # raft_thickness
                                           THEN -raft_thickness ELSE @],
               "raft_thickness")

\* an extra Z clearance that takes the global value when no extruder hops
_updateExtraZClearanceGlobalFallback(c) ==
    IF c.raised # "none" THEN c
    ELSE IF c.bv.global_container_stack = None THEN Raise(c, "AttributeError")
    ELSE
      LET hopping == {e \in settings.extruders : getProperty(e, "retraction_hop_enabled")}
          extra_z ==
              IF hopping # {}
              THEN MaxOf({0} \cup {getProperty(e, "retraction_hop") : e \in hopping})
              ELSE IF getProperty(GlobalId, "retraction_hop_enabled")
                   THEN getProperty(GlobalId, "retraction_hop") ELSE 0
      IN  Step([c EXCEPT !.bv.extra_z_clearance = extra_z], "extra_z_clearance")

_updateExtraZClearance(c) ==
    IF c.raised # "none" THEN c
    ELSE IF c.bv.global_container_stack = None THEN Raise(c, "AttributeError")
    ELSE
      LET hopping == {e \in settings.extruders : getProperty(e, "retraction_hop_enabled")}
          extra_z ==
              IF settings.extruders # {}
              THEN MaxOf({0} \cup {getProperty(e, "retraction_hop") : e \in hopping})
              ELSE IF getProperty(GlobalId, "retraction_hop_enabled")
                   THEN getProperty(GlobalId, "retraction_hop") ELSE 0
      IN  Step([c EXCEPT !.bv.extra_z_clearance = extra_z], "extra_z_clearance")

\* AxisAlignedBox(minimum, maximum); Y is the vertical axis
AxisAlignedBox(min_x, min_y, min_z, max_x, max_y, max_z) ==
    [left |-> min_x, right |-> max_x, bottom |-> min_y, top |-> max_y,
     back |-> min_z, front |-> max_z]

\* the depth extent of a polygon that has no point behind the centre, else 0
areaSize(polygon) ==
    LET ys == {p[2] : p \in polygon}
    IN  IF MinOf(ys) >= 0 THEN Abs(MaxOf(ys) - MinOf(ys)) ELSE 0

\* disallowed_area_size
disallowedAreaSize(areas) ==
    MaxOf({0} \cup {areaSize(areas[i]) : i \in {j \in 1..Len(areas) : areas[j] # {}}})

----------------------------------------------------------------------------
(* The scene: node i of the sequence is the i-th node below the root in    *)
(* breadth-first order; parent 0 is the root.                              *)

Nodes == 1..Len(scene)

isGroup(node) == scene[node].kind = "group"

isSliceable(node) == scene[node].kind = "sliceable"

RECURSIVE Ancestors(_)
\* the nodes above a node, the root left out
Ancestors(node) ==
    IF scene[node].parent = 0 THEN {}
    ELSE {scene[node].parent} \cup Ancestors(scene[node].parent)

\* SceneNode.getAllChildren(): the children, their children, and so on
getAllChildren(node) == {n \in Nodes : node \in Ancestors(n)}

\* AxisAlignedBox.set(bottom = ...)
SetBottom(box, bottom) == [box EXCEPT !.bottom = bottom]

\* AxisAlignedBox.intersectsBox(other) = FullIntersection: other lies within box
FullIntersection(box, other) ==
    /\ box.left <= other.left /\ other.right <= box.right
    /\ box.bottom <= other.bottom /\ other.top <= box.top
    /\ box.back <= other.back /\ other.front <= box.front

\* CuraSceneNode.collidesWithBbox(check_bbox)
collidesWithBbox(node, check_bbox) == ~FullIntersection(check_bbox, scene[node].box)

\* the convex hull decoration: the footprint of the node on the build plate, that of a
\* group being the hull of what it holds
getConvexHull(node) ==
    LET footprint(n) == Rect(scene[n].box.left, scene[n].box.back,
                             scene[n].box.right, scene[n].box.front)
        parts == {n \in getAllChildren(node) : isSliceable(n)}
    IN  IF isGroup(node) /\ parts # {}
        THEN ConvexHull(UNION {footprint(n) : n \in parts})
        ELSE footprint(node)

\* CuraSceneNode.collidesWithArea(areas)
collidesWithArea(node, areas) ==
    \E i \in 1..Len(areas) : intersectsPolygon(getConvexHull(node), areas[i])

\* optional values: None is the empty sequence
NoneBox == <<>>

----------------------------------------------------------------------------
(* The boundary check *)

setOutsideBuildArea(c, node, new_value) == [c EXCEPT !.outside[node] = new_value]

\* a check that does not look at the extruder of the node
checkNodeIgnoringExtruder(c, node, build_volume_bounding_box) ==
    IF ~(isSliceable(node) \/ isGroup(node)) THEN c
    ELSE setOutsideBuildArea(c, node,
            \/ collidesWithBbox(node, build_volume_bounding_box)
            \/ collidesWithArea(node, c.bv.disallowed_areas))

\* the body both checks run for one node (lines 131-146 and 179-194)
checkNode(c, node, build_volume_bounding_box) ==
    IF ~(isSliceable(node) \/ isGroup(node)) THEN c
    ELSE IF collidesWithBbox(node, build_volume_bounding_box)
         THEN setOutsideBuildArea(c, node, TRUE)
    ELSE IF collidesWithArea(node, c.bv.disallowed_areas)
         THEN setOutsideBuildArea(c, node, TRUE)
    ELSE IF c.bv.global_container_stack = None THEN Raise(c, "AttributeError")
    ELSE IF scene[node].extruder \notin settings.extruders THEN Raise(c, "KeyError")
    ELSE IF ~getProperty(scene[node].extruder, "isEnabled")
         THEN setOutsideBuildArea(c, node, TRUE)
    ELSE setOutsideBuildArea(c, node, FALSE)

RECURSIVE checkNodes(_, _, _)
\* the loop "for node in nodes", from node i on
checkNodes(c, i, build_volume_bounding_box) ==
    IF i > Len(scene) \/ c.raised # "none" THEN c
    ELSE checkNodes(checkNode(c, i, build_volume_bounding_box), i + 1, build_volume_bounding_box)

\* a group override that looks at and writes the group's own children only
overrideGroupDirectChildren(flags, group_node) ==
    LET children == {n \in Nodes : scene[n].parent = group_node}
        group_outside == flags[group_node] \/ \E child \in children : flags[child]
    IN  [n \in DOMAIN flags |-> IF n = group_node \/ n \in children
                                THEN group_outside ELSE flags[n]]

\* a group override that flags the group and leaves its children as they are
overrideGroupFlagOnly(flags, group_node) ==
    LET children == getAllChildren(group_node)
        group_outside == flags[group_node] \/ \E child \in children : flags[child]
    IN  [flags EXCEPT ![group_node] = group_outside]

\* the two loops over the children of one group node
overrideGroup(flags, group_node) ==
    LET children == getAllChildren(group_node)
        group_outside == flags[group_node] \/ \E child \in children : flags[child]
    IN  [n \in DOMAIN flags |-> IF n = group_node \/ n \in children
                                THEN group_outside ELSE flags[n]]

RECURSIVE overrideGroups(_, _)
\* the loop "for group_node in group_nodes", from node i on
overrideGroups(flags, i) ==
    IF i > Len(scene) THEN flags
    ELSE overrideGroups(IF isGroup(i) THEN overrideGroup(flags, i) ELSE flags, i + 1)

\* a boundary check that, without a bounding box, takes every node to be outside
updateNodeBoundaryCheckUnboxed(c) ==
    IF c.raised # "none" THEN c
    ELSE IF c.bv.volume_aabb = NoneBox
         THEN [c EXCEPT !.outside = [n \in DOMAIN c.outside |-> TRUE]]
    ELSE
      LET checked == checkNodes(c, 1, SetBottom(c.bv.volume_aabb[1], -90010))
      IN  IF checked.raised # "none" THEN checked
          ELSE Step([checked EXCEPT !.outside = overrideGroups(checked.outside, 1)], "outside")

updateNodeBoundaryCheck(c) ==
    IF c.raised # "none" \/ c.bv.volume_aabb = NoneBox THEN c
    ELSE
      LET checked == checkNodes(c, 1, SetBottom(c.bv.volume_aabb[1], -90010))
      IN  IF checked.raised # "none" THEN checked
          ELSE Step([checked EXCEPT !.outside = overrideGroups(checked.outside, 1)], "outside")

\* a check of one node that, without a bounding box, takes the node to be outside
checkBoundsAndUpdateUnboxed(c, node, bounds) ==
    IF ~scene[node].cura THEN c
    ELSE IF bounds # NoneBox THEN checkNode(c, node, bounds[1])
    ELSE IF c.bv.volume_aabb = NoneBox THEN setOutsideBuildArea(c, node, TRUE)
    ELSE checkNode(c, node, SetBottom(c.bv.volume_aabb[1], -90010))

checkBoundsAndUpdate(c, node, bounds) ==
    IF ~scene[node].cura THEN c
    ELSE IF bounds # NoneBox THEN checkNode(c, node, bounds[1])
    ELSE IF c.bv.volume_aabb = NoneBox THEN c
    ELSE checkNode(c, node, SetBottom(c.bv.volume_aabb[1], -90010))

----------------------------------------------------------------------------
(* recalculateBuildVolume and the handlers that rebuild *)

\* bounds whose box reaches up to the full height of the machine
boundsAndCheckFullHeight(c) ==
    LET self == c.bv
        min_w == -(self.width \div 2)
        max_w == self.width \div 2
        max_h == self.height
        min_d == -(self.depth \div 2)
        max_d == self.depth \div 2
        top == max_h - self.raft_thickness - self.extra_z_clearance
        disallowed_area_size == disallowedAreaSize(self.disallowed_areas)
        boxed == Step([c EXCEPT
                    !.bv.mesh = <<self.width, self.height, self.depth, self.shape>>,
                    !.bv.disallowed_area_mesh = self.disallowed_areas # <<>>,
                    !.bv.error_mesh = self.error_areas # <<>>,
                    !.bv.volume_aabb = <<AxisAlignedBox(min_w, -10, min_d, max_w, max_h, max_d)>>],
                  "volume_aabb")
        edge == getEdgeDisallowedSize(self)
        bed_adhesion_size == edge.value
    IN  IF edge.raised # "none" THEN Raise(boxed, edge.raised)
        ELSE updateNodeBoundaryCheck(
               Step([Step(boxed, "edge_size") EXCEPT !.maximum_bounds =
                        <<AxisAlignedBox(min_w + bed_adhesion_size + 10, 0,
                                         min_d + disallowed_area_size - bed_adhesion_size + 10,
                                         max_w - bed_adhesion_size - 10, top,
                                         max_d - disallowed_area_size + bed_adhesion_size - 10)>>],
                    "maximum_bounds"))

\* lines 360-376, the meshes being built
boundsAndCheck(c) ==
    LET self == c.bv
        min_w == -(self.width \div 2)
        max_w == self.width \div 2
        max_h == self.height
        min_d == -(self.depth \div 2)
        max_d == self.depth \div 2
        top == max_h - self.raft_thickness - self.extra_z_clearance
        disallowed_area_size == disallowedAreaSize(self.disallowed_areas)
        boxed == Step([c EXCEPT
                    !.bv.mesh = <<self.width, self.height, self.depth, self.shape>>,
                    !.bv.disallowed_area_mesh = self.disallowed_areas # <<>>,
                    !.bv.error_mesh = self.error_areas # <<>>,
                    !.bv.volume_aabb = <<AxisAlignedBox(min_w, -10, min_d, max_w, top, max_d)>>],
                  "volume_aabb")
        edge == getEdgeDisallowedSize(self)
        bed_adhesion_size == edge.value
    IN  IF edge.raised # "none" THEN Raise(boxed, edge.raised)
        ELSE updateNodeBoundaryCheck(
               Step([Step(boxed, "edge_size") EXCEPT !.maximum_bounds =
                        <<AxisAlignedBox(min_w + bed_adhesion_size + 10, 0,
                                         min_d + disallowed_area_size - bed_adhesion_size + 10,
                                         max_w - bed_adhesion_size - 10, top,
                                         max_d - disallowed_area_size + bed_adhesion_size - 10)>>],
                    "maximum_bounds"))

\* a recalculation that does not look at the size first
recalculateBuildVolumeUnguarded(c) ==
    IF c.raised # "none" THEN c
    ELSE IF c.bv.global_container_stack = None
         THEN Raise([c EXCEPT !.bv.mesh = <<c.bv.width, c.bv.height, c.bv.depth, c.bv.shape>>],
                    "AttributeError")
    ELSE boundsAndCheck(c)

recalculateBuildVolume(c) ==
    IF c.raised # "none" THEN c
    ELSE IF c.bv.width = 0 \/ c.bv.height = 0 \/ c.bv.depth = 0 THEN c
    ELSE IF c.bv.global_container_stack = None
         THEN Raise([c EXCEPT !.bv.mesh = <<c.bv.width, c.bv.height, c.bv.depth, c.bv.shape>>],
                    "AttributeError")
    ELSE boundsAndCheck(c)

\* a rebuild that recalculates the volume before it updates the areas
rebuildVolumeFirst(c) ==
    _updateExtraZClearance(_updateRaftThickness(_updateDisallowedAreas(recalculateBuildVolume(c))))

_updateDisallowedAreasAndRebuild(c) ==
    recalculateBuildVolume(_updateExtraZClearance(_updateRaftThickness(_updateDisallowedAreas(c))))

_onSettingChangeTimerFinished(c) ==
    recalculateBuildVolume(_updateExtraZClearance(_updateRaftThickness(_updateDisallowedAreas(c))))

_onEngineCreated(c) == recalculateBuildVolume([c EXCEPT !.bv.engine_ready = TRUE])

----------------------------------------------------------------------------
(* The state after construction, and the machine the settings describe *)

\* BuildVolume.__init__
NewBuildVolume ==
    [global_container_stack |-> None, width |-> 0, height |-> 0, depth |-> 0, shape |-> "",
     disallowed_areas |-> <<>>, disallowed_areas_no_brim |-> <<>>, error_areas |-> <<>>,
     has_errors |-> FALSE, volume_aabb |-> NoneBox, raft_thickness |-> 0,
     extra_z_clearance |-> 0, adhesion_type |-> None, position_y |-> 0,
     engine_ready |-> FALSE, mesh |-> <<>>, disallowed_area_mesh |-> FALSE,
     error_mesh |-> FALSE]

\* the settings every stack answers; an extruder stack overrides some of them
DefaultValues ==
    [machine_width |-> 2000, machine_depth |-> 2000, machine_height |-> 2000,
     machine_center_is_zero |-> FALSE, machine_disallowed_areas |-> <<>>,
     nozzle_offsetting_for_disallowed_areas |-> TRUE,
     print_sequence |-> "all_at_once", adhesion_type |-> "skirt",
     skirt_brim_line_width |-> 4, initial_layer_line_width_factor |-> 100,
     skirt_gap |-> 30, skirt_line_count |-> 3, brim_line_count |-> 20, raft_margin |-> 150,
     support_enable |-> FALSE, support_offset |-> 0,
     draft_shield_enabled |-> FALSE, draft_shield_dist |-> 100,
     ooze_shield_enabled |-> FALSE, ooze_shield_dist |-> 20,
     travel_avoid_other_parts |-> FALSE, travel_avoid_distance |-> 6, infill_wipe_dist |-> 0,
     prime_tower_enable |-> FALSE, prime_tower_circular |-> FALSE, prime_tower_size |-> 200,
     prime_tower_position_x |-> 1000, prime_tower_position_y |-> 1000,
     raft_base_thickness |-> 3, raft_interface_thickness |-> 3, raft_surface_layers |-> 2,
     raft_surface_thickness |-> 1, raft_airgap |-> 3, layer_0_z_overlap |-> 1,
     retraction_hop_enabled |-> FALSE, retraction_hop |-> 10,
     machine_nozzle_offset_x |-> 0, machine_nozzle_offset_y |-> 0,
     nozzle_disallowed_areas |-> <<>>,
     prime_blob_enable |-> FALSE, extruder_prime_pos_x |-> 0, extruder_prime_pos_y |-> 0,
     isEnabled |-> TRUE]

\* a two-nozzle machine: the second nozzle sits 18 mm to the right, declares an area it
\* cannot print in, and primes a blob in the front left corner
DefaultExtruders ==
    [e \in ExtruderIds |->
        IF e = "e0" THEN DefaultValues
        ELSE [DefaultValues EXCEPT !.machine_nozzle_offset_x = 180,
                                   !.nozzle_disallowed_areas = <<Rect(300, 300, 500, 500)>>,
                                   !.prime_blob_enable = TRUE,
                                   !.extruder_prime_pos_x = 200,
                                   !.extruder_prime_pos_y = 200]]

DefaultSettings ==
    [global |-> DefaultValues, ext |-> DefaultExtruders, extruders |-> ExtruderIds,
     used |-> <<"e0">>, active |-> "e0"]

\* the lists of used extruders the extruder manager may report
UsedOrders == {<<>>, <<"e0">>, <<"e0", "e1">>, <<"e1", "e0">>}

\* a box of the scene, by its centre on the plate, its half width and its height
NodeBox(x, z, half, height) == AxisAlignedBox(x - half, 0, z - half, x + half, height, z + half)

Node(parent, kind, box, extruder) ==
    [parent |-> parent, kind |-> kind, box |-> box, extruder |-> extruder, cura |-> TRUE]

----------------------------------------------------------------------------
(* The Toolbox and the Machine after construction *)

\* the keys of Toolbox._metadata, in the order of the dictionary
MetadataTypes ==
    << "authors", "packages", "plugins_showcase", "plugins_available", "plugins_installed",
       "materials_showcase", "materials_available", "materials_installed" >>

\* Toolbox.__init__
NewToolbox ==
    [ metadata          |-> [type \in Range(MetadataTypes) |-> <<>>],
      view_page         |-> "loading",
      request_urls      |-> <<>>,
      network_manager   |-> FALSE,
      requests          |-> <<>>,
      to_update         |-> <<>>,
      called_later      |-> 0,
      replies           |-> <<>>,
      download_reply    |-> <<>>,
      download_progress |-> 0,
      is_downloading    |-> FALSE,
      read              |-> <<>>,
      installed         |-> <<>>,
      restart_required  |-> FALSE ]

\* Machine.__init__
NewMachine ==
    [ global_stack              |-> None,
      extruder_stack_list       |-> None,
      stacks                    |-> <<>>,
      pending_container_changes |-> <<>>,
      called_later              |-> 0 ]

----------------------------------------------------------------------------
(* The context a handler runs in, and what it leaves in the state *)

Context == [bv |-> bv, outside |-> outside, maximum_bounds |-> maximum_bounds,
            log |-> <<>>, raised |-> "none"]

\* the handlers that rebuild in full
Rebuilds == {"_updateDisallowedAreasAndRebuild", "_onSettingChangeTimerFinished"}

\* nothing has run yet, or something has changed since
Nothing == [ran |-> "nothing", log |-> <<>>, raised |-> "none", again |-> FALSE,
            returned |-> <<>>]

\* the handler `name` ran from the current state and left context c; the two full
\* rebuilds are noted alike;
\* again: a full rebuild ran right after a full rebuild, nothing having changed in between
Ran(name, c) ==
    /\ bv' = c.bv
    /\ outside' = c.outside
    /\ maximum_bounds' = c.maximum_bounds
    /\ last' = [ran |-> IF name \in Rebuilds THEN "rebuild" ELSE name,
                log |-> c.log, raised |-> c.raised,
                again |-> name \in Rebuilds /\ last.ran = "rebuild", returned |-> <<>>]
    /\ UNCHANGED <<toolbox, machine, settings, scene>>

\* something outside the handlers changed: a setting, or a field set by the application
Changed == last' = Nothing

----------------------------------------------------------------------------
(* Spec: the rebuild handlers of a build volume, on a two-nozzle machine   *)
(* whose adhesion type the user changes.                                   *)

\* the prime tower is tried at (100 + 45k, 100 - 45k) mm, k = 0..MaxTowerStep
MaxTowerStep == 2

TowerPositions == {<<1000 + 450 * k, 1000 - 450 * k>> : k \in 0..MaxTowerStep}

\* the adhesion types the user picks from; "glue" is one the calculation does not know
PickedAdhesionTypes == {"skirt", "raft", "glue"}

PrintSequences == {"all_at_once", "one_at_a_time"}

\* the heights the application hands to setHeight
Heights == {0, 2000}

\* one object where the centre tower goes, one on the second nozzle's declared area
PipelineScene ==
    << Node(0, "sliceable", NodeBox(-100, -100, 50, 100), "e0"),
       Node(0, "sliceable", NodeBox(400, 400, 50, 100), "e1") >>

Init ==
    /\ \E used \in UsedOrders, sequence \in PrintSequences, tower \in BOOLEAN :
       \E pos \in IF tower THEN TowerPositions ELSE {<<1000, 1000>>} :
          settings = [DefaultSettings EXCEPT !.used = used,
                                             !.global.print_sequence = sequence,
                                             !.global.prime_tower_enable = tower,
                                             !.global.prime_tower_position_x = pos[1],
                                             !.global.prime_tower_position_y = pos[2]]
    /\ scene = PipelineScene
    /\ bv = NewBuildVolume
    /\ outside = [n \in 1..Len(PipelineScene) |-> FALSE]
    /\ maximum_bounds = NoneBox
    /\ last = Nothing
    /\ toolbox = NewToolbox
    /\ machine = NewMachine

\* the application hands the build volume the global stack of the machine
SetGlobalStack ==
    /\ bv.global_container_stack = None
    /\ bv' = [bv EXCEPT !.global_container_stack = "stack"]
    /\ Changed
    /\ UNCHANGED <<toolbox, machine, settings, scene, outside, maximum_bounds>>

\* the application sizes the volume: setWidth, setHeight and setDepth
SetSize ==
    \E height \in Heights :
        /\ bv.height # height \/ bv.width = 0
        /\ bv' = [bv EXCEPT !.width = getProperty(GlobalId, "machine_width"),
                            !.height = height,
                            !.depth = getProperty(GlobalId, "machine_depth")]
        /\ Changed
        /\ UNCHANGED <<toolbox, machine, settings, scene, outside, maximum_bounds>>

\* the user picks another adhesion type
SetAdhesionType ==
    \E value \in PickedAdhesionTypes :
        /\ settings.global.adhesion_type # value
        /\ settings' = [settings EXCEPT !.global.adhesion_type = value]
        /\ Changed
        /\ UNCHANGED <<toolbox, machine, scene, bv, outside, maximum_bounds>>

UpdateDisallowedAreasAndRebuild ==
    Ran("_updateDisallowedAreasAndRebuild", _updateDisallowedAreasAndRebuild(Context))

OnSettingChangeTimerFinished ==
    Ran("_onSettingChangeTimerFinished", _onSettingChangeTimerFinished(Context))

Next ==
    \/ SetGlobalStack
    \/ SetSize
    \/ SetAdhesionType
    \/ UpdateDisallowedAreasAndRebuild
    \/ OnSettingChangeTimerFinished

Spec == Init /\ [][Next]_vars

----------------------------------------------------------------------------
(* What the rebuild handlers guarantee, checked under Spec *)

\* the call that ran last was a full rebuild that replaced the disallowed-area lists
AreasUpdated == last.ran = "rebuild" /\ \E i \in 1..Len(last.log) : last.log[i] = "disallowed_areas"

\* the tower footprint overlaps an area some used extruder's nozzle declares
TowerHitsNozzleArea ==
    \E e \in Range(getUsedExtruderStacks) :
        AnyIntersects(<<primeTowerArea>>, getProperty(e, "nozzle_disallowed_areas"))

\* more than one extruder is used, the prime tower is on and overlaps a nozzle area,
\* and the areas have just been updated
TowerCollisionCase ==
    /\ AreasUpdated
    /\ Len(getUsedExtruderStacks) > 1
    /\ getProperty(GlobalId, "prime_tower_enable")
    /\ TowerHitsNozzleArea

\* C1: after _updateDisallowedAreas with more than one used extruder and the prime
\* tower enabled, a tower that overlaps a nozzle-declared area of a used extruder makes
\* hasErrors() true, is in the error-area list, and is not in getDisallowedAreas()
C1_TowerCollisionReported ==
    TowerCollisionCase =>
        /\ bv.has_errors
        /\ primeTowerArea \in Range(bv.error_areas)
        /\ primeTowerArea \notin Range(bv.disallowed_areas)

\* C2: in every state hasErrors() is true exactly when the error-area list is
\* non-empty, also after an _updateDisallowedAreas that returned early or was aborted
C2_HasErrorsDerived == bv.has_errors <=> Len(bv.error_areas) > 0

\* a global stack with extruders is set and the adhesion type is not a known one
UnknownAdhesionCase ==
    /\ bv.global_container_stack # None
    /\ settings.extruders # {}
    /\ getProperty(GlobalId, "adhesion_type") \notin AdhesionTypes

\* getEdgeDisallowedSize raises and gives no value, and a rebuild that has just run
\* was aborted by that error before it took any step
RaisesAndAborts ==
    /\ getEdgeDisallowedSize(bv) = Raised("Exception")
    /\ last.ran = "rebuild" => last.raised = "Exception" /\ last.log = <<>>

\* C3 as stated: with a stack with extruders and an unknown adhesion type,
\* getEdgeDisallowedSize raises and the rebuild is aborted, whatever the print sequence
C3_UnknownAdhesionAlwaysRaises == UnknownAdhesionCase => RaisesAndAborts

\* C3, amended: with a stack with extruders, an unknown adhesion type and a print
\* sequence other than one-at-a-time, getEdgeDisallowedSize raises and gives no value,
\* and the error aborts the rebuild
C3_UnknownAdhesionRaises ==
    UnknownAdhesionCase /\ getProperty(GlobalId, "print_sequence") # "one_at_a_time"
        => RaisesAndAborts

\* a rebuild was aborted by the unknown-adhesion error
C3_Witness ==
    /\ UnknownAdhesionCase
    /\ getProperty(GlobalId, "print_sequence") # "one_at_a_time"
    /\ last.ran = "rebuild"
    /\ last.raised = "Exception"

\* C8: a full rebuild that runs right after a full rebuild, nothing having changed in
\* between, leaves both disallowed-area lists as they were: polygon for polygon
C8_RebuildIdempotent ==
    [][last'.ran = "rebuild" /\ last'.again =>
          /\ bv'.disallowed_areas = bv.disallowed_areas
          /\ bv'.disallowed_areas_no_brim = bv.disallowed_areas_no_brim]_vars

\* a second rebuild in a row has run and the lists hold areas
C8_Witness ==
    /\ last.ran = "rebuild" /\ last.again
    /\ AreasUpdated
    /\ Len(bv.disallowed_areas) > 1

\* step a is noted in the log before its position j
NotedBefore(log, a, j) == \E i \in 1..(j - 1) : log[i] = a

\* the flags the boundary check gives from the volume and the areas as they are now
FreshFlags == updateNodeBoundaryCheck(Context).outside

\* C9: in every full rebuild the edge size is computed before the disallowed-area
\* lists are replaced, these before raft thickness and extra Z clearance are updated,
\* these before the bounding box is replaced, and only then are node flags written,
\* from the box and the lists of this same rebuild
C9_RebuildOrder ==
    last.ran = "rebuild" =>
        \A j \in 1..Len(last.log) :
            /\ last.log[j] = "disallowed_areas" => NotedBefore(last.log, "edge_size", j)
            /\ last.log[j] \in {"raft_thickness", "extra_z_clearance"}
                  => NotedBefore(last.log, "disallowed_areas", j)
            /\ last.log[j] = "volume_aabb"
                  => /\ NotedBefore(last.log, "raft_thickness", j)
                     /\ NotedBefore(last.log, "extra_z_clearance", j)
            /\ last.log[j] = "outside"
                  => /\ NotedBefore(last.log, "volume_aabb", j)
                     /\ NotedBefore(last.log, "disallowed_areas", j)
                     /\ outside = FreshFlags

\* a rebuild ran to its end and flagged a node outside
C9_Witness ==
    /\ last.ran = "rebuild"
    /\ last.log # <<>> /\ last.log[Len(last.log)] = "outside"
    /\ \E n \in Nodes : outside[n]

----------------------------------------------------------------------------
(* SpecEdge: getEdgeDisallowedSize called on machines of many settings *)

\* distances are tried from -5 mm up to 5 mm times MaxEdgeStep, 5 mm apart
MaxEdgeStep == 1

EdgeDistances == {50 * k : k \in -1..MaxEdgeStep}

\* the adhesion types of the machines tried
EdgeAdhesionTypes == AdhesionTypes \cup {"glue"}

InitEdge ==
    /\ \E adhesion_type \in EdgeAdhesionTypes, sequence \in PrintSequences,
          used \in {<<>>, <<"e0">>, <<"e0", "e1">>},
          support_enable \in BOOLEAN, support_offset \in EdgeDistances,
          draft \in BOOLEAN, ooze \in BOOLEAN, avoid \in BOOLEAN,
          wipe0 \in {-50, 0}, wipe1 \in EdgeDistances :
       \E raft_margin \in IF adhesion_type = "raft" THEN {-50, 150} ELSE {150},
          draft_shield_dist \in IF draft THEN {-50, 100} ELSE {100},
          extruders \in IF used = <<>> /\ ~draft /\ ~ooze THEN {{}, ExtruderIds}
                                                           ELSE {ExtruderIds} :
          settings = [DefaultSettings EXCEPT
                         !.used = used,
                         !.extruders = extruders,
                         !.global.adhesion_type = adhesion_type,
                         !.global.print_sequence = sequence,
                         !.global.support_enable = support_enable,
                         !.global.support_offset = support_offset,
                         !.global.raft_margin = raft_margin,
                         !.global.draft_shield_enabled = draft,
                         !.global.draft_shield_dist = draft_shield_dist,
                         !.global.ooze_shield_enabled = ooze,
                         !.ext["e0"].travel_avoid_other_parts = avoid,
                         !.ext["e0"].infill_wipe_dist = wipe0,
                         !.ext["e1"].infill_wipe_dist = wipe1]
    /\ scene = <<>>
    /\ \E stack \in {None, "stack"} :
          bv = [NewBuildVolume EXCEPT !.global_container_stack = stack]
    /\ outside = <<>>
    /\ maximum_bounds = NoneBox
    /\ last = Nothing
    /\ toolbox = NewToolbox
    /\ machine = NewMachine

\* a caller asks for the edge size
GetEdgeDisallowedSize ==
    /\ last.ran = "nothing"
    /\ LET edge == getEdgeDisallowedSize(bv)
       IN  last' = [ran |-> "getEdgeDisallowedSize", log |-> <<>>, raised |-> edge.raised,
                    again |-> FALSE,
                    returned |-> IF edge.raised = "none" THEN <<edge.value>> ELSE <<>>]
    /\ UNCHANGED <<toolbox, machine, settings, scene, bv, outside, maximum_bounds>>

NextEdge == GetEdgeDisallowedSize

SpecEdge == InitEdge /\ [][NextEdge]_vars

\* getEdgeDisallowedSize has run on a stack with extruders, the print sequence not
\* one-at-a-time and the adhesion type a known one
EdgeSizeCase ==
    /\ last.ran = "getEdgeDisallowedSize"
    /\ bv.global_container_stack # None
    /\ settings.extruders # {}
    /\ getProperty(GlobalId, "print_sequence") # "one_at_a_time"
    /\ getProperty(GlobalId, "adhesion_type") \in AdhesionTypes

\* the support offset, if support is enabled
SupportOffsetIfEnabled ==
    IF getProperty(GlobalId, "support_enable") THEN getProperty(GlobalId, "support_offset") ELSE 0

\* the distances of the enabled shields
EnabledShieldDistances ==
    {getProperty(GlobalId, "draft_shield_dist") : b \in {getProperty(GlobalId, "draft_shield_enabled")} \ {FALSE}}
      \cup {getProperty(GlobalId, "ooze_shield_dist") : b \in {getProperty(GlobalId, "ooze_shield_enabled")} \ {FALSE}}

\* the largest distance over the enabled shields, 0 if none is enabled
FarthestEnabledShield ==
    IF EnabledShieldDistances = {} THEN 0 ELSE MaxOf(EnabledShieldDistances)

\* the largest of 0 and of the distances of the enabled shields
FarthestShieldOrZero == MaxOf({0} \cup EnabledShieldDistances)

\* the infill-wipe distances of all extruders, and the travel-avoid distances of the
\* used extruders that avoid other parts
WallDistances ==
    {getProperty(e, "infill_wipe_dist") : e \in settings.extruders}
      \cup {getProperty(e, "travel_avoid_distance") :
               e \in {u \in Range(getUsedExtruderStacks) : getProperty(u, "travel_avoid_other_parts")}}

\* the largest of three numbers
Max3(a, b, c) == Max2(a, Max2(b, c))

\* the adhesion size of the machine's adhesion type
AdhesionSizeNow == bedAdhesionSize(getProperty(GlobalId, "adhesion_type"), getUsedExtruderStacks)

\* C10 as stated: the edge size is the maximum of the largest wall distance, of support
\* expansion plus the farthest enabled shield, and of support expansion plus the bed
\* adhesion size
C10_EdgeSizeIsMaxOfTerms ==
    EdgeSizeCase =>
        last.returned = <<Max3(MaxOf(WallDistances),
                               SupportOffsetIfEnabled + FarthestEnabledShield,
                               SupportOffsetIfEnabled + AdhesionSizeNow)>>

\* C10, amended: the same, the wall term being the maximum of 0 and the wall distances
\* and the shield term the maximum of 0 and the distances of the enabled shields
C10_EdgeSizeIsMaxOfFlooredTerms ==
    EdgeSizeCase =>
        last.returned = <<Max3(MaxOf({0} \cup WallDistances),
                               SupportOffsetIfEnabled + FarthestShieldOrZero,
                               SupportOffsetIfEnabled + AdhesionSizeNow)>>

\* the edge size was computed with all three terms above 0 and different
C10_Witness ==
    /\ EdgeSizeCase
    /\ MaxOf(WallDistances) > 0
    /\ FarthestEnabledShield > 0
    /\ AdhesionSizeNow > 0
    /\ SupportOffsetIfEnabled + FarthestEnabledShield # SupportOffsetIfEnabled + AdhesionSizeNow
    /\ last.returned # <<>>

\* getEdgeDisallowedSize has run on a stack with extruders, the print sequence being
\* one-at-a-time
OneAtATimeCase ==
    /\ last.ran = "getEdgeDisallowedSize"
    /\ bv.global_container_stack # None
    /\ settings.extruders # {}
    /\ getProperty(GlobalId, "print_sequence") = "one_at_a_time"

\* C13: with print sequence one-at-a-time, a global stack and extruders,
\* getEdgeDisallowedSize returns 0.1 mm whatever the adhesion type, support, shield,
\* travel-avoidance and infill-wipe settings are
C13_OneAtATimeFixed == OneAtATimeCase => last.raised = "none" /\ last.returned = <<1>>

\* the edge size was computed one-at-a-time on a machine whose other settings would
\* give another size, or none
C13_Witness ==
    /\ OneAtATimeCase
    /\ getProperty(GlobalId, "adhesion_type") = "glue"
    /\ getProperty(GlobalId, "support_enable") /\ getProperty(GlobalId, "support_offset") > 0
    /\ getProperty(GlobalId, "draft_shield_enabled")
    /\ getProperty("e0", "travel_avoid_other_parts")
    /\ getProperty("e1", "infill_wipe_dist") > 1
    /\ last.returned = <<1>>

\* C14: every value getEdgeDisallowedSize returns is 0 or more
C14_EdgeSizeNonNegative ==
    last.ran = "getEdgeDisallowedSize" /\ last.returned # <<>> => last.returned[1] >= 0

\* the edge size was computed from a negative raft margin, a negative support offset, a
\* negative shield distance and negative infill-wipe distances
C14_Witness ==
    /\ EdgeSizeCase
    /\ getProperty(GlobalId, "adhesion_type") = "raft"
    /\ getProperty(GlobalId, "raft_margin") < 0
    /\ getProperty(GlobalId, "support_enable") /\ getProperty(GlobalId, "support_offset") < 0
    /\ EnabledShieldDistances # {} /\ MaxOf(EnabledShieldDistances) < 0
    /\ MaxOf(WallDistances) < 0
    /\ last.returned = <<0>>

\* the edge size was asked of a build volume without a stack, or of a machine without
\* extruders
C14_NoMachineWitness ==
    /\ last.ran = "getEdgeDisallowedSize"
    /\ bv.global_container_stack = None \/ settings.extruders = {}
    /\ last.returned = <<0>>

----------------------------------------------------------------------------
(* SpecScene: the boundary check on a scene with nested groups.            *)
(*   1 group G1, 2 object A, 3 group G2 in G1, 4 object B in G1,           *)
(*   5 object C in G2, 6 a node in G2 that is neither sliceable nor group  *)

\* the box around two boxes
UnionBox(a, b) ==
    AxisAlignedBox(Min2(a.left, b.left), Min2(a.bottom, b.bottom), Min2(a.back, b.back),
                   Max2(a.right, b.right), Max2(a.top, b.top), Max2(a.front, b.front))

\* where an object stands: well inside, on the left border strip, or beyond the volume
Inside == <<0, 0>>

OnBorder == <<-950, 0>>

Beyond == <<1200, 0>>

\* the box of an object standing at a place
ObjectBox(place) == NodeBox(place[1], place[2], 30, 100)

\* the scene, by the extruders of G1 and C and the places of A, B and C
NestedScene(g1_extruder, c_extruder, a_place, b_place, c_place) ==
    << Node(0, "group", UnionBox(ObjectBox(b_place), ObjectBox(c_place)), g1_extruder),
       Node(0, "sliceable", ObjectBox(a_place), "e0"),
       Node(1, "group", ObjectBox(c_place), "e0"),
       Node(1, "sliceable", ObjectBox(b_place), "e0"),
       Node(3, "sliceable", ObjectBox(c_place), c_extruder),
       Node(3, "plain", ObjectBox(c_place), "e0"),
       [Node(0, "plain", ObjectBox(Inside), "e0") EXCEPT !.cura = FALSE] >>

\* the bounds a caller hands to checkBoundsAndUpdate: none, or a box no object fits in
GivenBounds == {NoneBox, <<AxisAlignedBox(-10, -10, -10, 10, 10, 10)>>}

\* the nodes checkBoundsAndUpdate is called for
CheckedNodes == {1, 2, 5, 7}

InitScene ==
    /\ settings = DefaultSettings
    /\ \E g1_extruder \in ExtruderIds, c_extruder \in ExtruderIds,
          a_place \in {Inside, OnBorder, Beyond}, b_place \in {Inside, Beyond},
          c_place \in {Inside, OnBorder} :
          scene = NestedScene(g1_extruder, c_extruder, a_place, b_place, c_place)
    /\ \E sized \in BOOLEAN :
          bv = IF sized
               THEN [NewBuildVolume EXCEPT !.global_container_stack = "stack",
                                           !.width = 2000, !.height = 2000, !.depth = 2000]
               ELSE NewBuildVolume
    /\ outside = [n \in 1..7 |-> FALSE]
    /\ maximum_bounds = NoneBox
    /\ last = Nothing
    /\ toolbox = NewToolbox
    /\ machine = NewMachine

\* the user enables or disables the second extruder
SetExtruderEnabled ==
    /\ settings' = [settings EXCEPT !.ext["e1"].isEnabled = ~@]
    /\ Changed
    /\ UNCHANGED <<toolbox, machine, scene, bv, outside, maximum_bounds>>

UpdateNodeBoundaryCheck ==
    Ran("updateNodeBoundaryCheck", updateNodeBoundaryCheck(Context))

CheckBoundsAndUpdate ==
    \E node \in CheckedNodes, bounds \in GivenBounds :
        Ran("checkBoundsAndUpdate", checkBoundsAndUpdate(Context, node, bounds))

NextScene ==
    \/ SetExtruderEnabled
    \/ UpdateDisallowedAreasAndRebuild
    \/ UpdateNodeBoundaryCheck
    \/ CheckBoundsAndUpdate

SpecScene == InitScene /\ [][NextScene]_vars

\* the boundary check has just run to its end, on the volume and the areas as they are
BoundaryChecked == last.log # <<>> /\ last.log[Len(last.log)] = "outside"

\* the three rules: the node collides with the build-volume box, or with a disallowed
\* area, or its extruder is disabled
ClassifiedOutside(n) ==
    \/ collidesWithBbox(n, SetBottom(bv.volume_aabb[1], -90010))
    \/ collidesWithArea(n, bv.disallowed_areas)
    \/ ~getProperty(scene[n].extruder, "isEnabled")

Classified(n) == isSliceable(n) \/ isGroup(n)

\* C4: after the boundary check, a group with a descendant classified Outside, at any
\* depth, is flagged Outside together with every one of its descendants
C4_GroupPropagation ==
    BoundaryChecked =>
        \A g \in {n \in Nodes : isGroup(n)} :
            (\E d \in getAllChildren(g) : Classified(d) /\ ClassifiedOutside(d))
                => outside[g] /\ \A d \in getAllChildren(g) : outside[d]

\* an object of the inner group is classified Outside, and an object of the outer group
\* that passes all three rules is flagged Outside with it
C4_Witness ==
    /\ BoundaryChecked
    /\ ClassifiedOutside(5)
    /\ ~ClassifiedOutside(4) /\ ~ClassifiedOutside(1) /\ ~ClassifiedOutside(3)
    /\ outside[4] /\ outside[1]

\* the flag a descendant has when its group is looked at: the one the rules gave it,
\* or, the rules not applying to it, the one it had before the call
OutsideAfterRules(d) == IF Classified(d) THEN ClassifiedOutside(d) ELSE outside[d]

\* the step is a call of updateNodeBoundaryCheck that ran to its end
BoundaryCheckStep == last'.ran = "updateNodeBoundaryCheck" /\ last'.log = <<"outside">>

\* every descendant of the group carries the flag of the group
SharesFlag(flags, g) == \A d \in getAllChildren(g) : flags[d] = flags[g]

Ungrouped(n) == scene[n].parent = 0

C7_NoBoxNoChange ==
    [][last'.ran = "updateNodeBoundaryCheck" /\ bv.volume_aabb = NoneBox =>
          outside' = outside /\ last'.raised = "none"]_vars

\* the check ran without a box, over a node that was flagged Outside before
C7_Witness ==
    /\ last.ran = "updateNodeBoundaryCheck"
    /\ bv.volume_aabb = NoneBox
    /\ \E n \in Nodes : outside[n]

\* the flags of nodes that were never checked
NeverFlagged == [n \in DOMAIN outside |-> FALSE]

\* C25: the outcome of updateNodeBoundaryCheck has no history: whatever flags the nodes
\* had before, the run ends with the flags a run over never-flagged nodes ends with, on
\* every sliceable or group node, also of a group that holds a node that is neither
C25_NoHistory ==
    [][BoundaryCheckStep =>
          LET fresh == updateNodeBoundaryCheck([Context EXCEPT !.outside = NeverFlagged])
          IN  \A n \in {m \in Nodes : Classified(m)} : outside'[n] = fresh.outside[n]]_vars

\* the step is a call of checkBoundsAndUpdate for the node, without bounds
SingleCheckStep(node) ==
    /\ last'.ran = "checkBoundsAndUpdate"
    /\ last'.raised = "none"
    /\ outside' = checkBoundsAndUpdate(Context, node, NoneBox).outside

\* C27 as stated: for a sliceable or group CuraSceneNode that is in no group,
\* checkBoundsAndUpdate without bounds leaves the flag updateNodeBoundaryCheck would
\* leave in the same state; without a bounding box, or for a node that is no
\* CuraSceneNode, it changes no flag
C27_SingleCheckAgrees ==
    [][\A node \in CheckedNodes :
          SingleCheckStep(node) =>
              /\ (scene[node].cura /\ Classified(node) /\ Ungrouped(node))
                    => outside'[node] = updateNodeBoundaryCheck(Context).outside[node]
              /\ (bv.volume_aabb = NoneBox \/ ~scene[node].cura)
                    => outside' = outside]_vars

\* C27, amended: the same, of a group only when none of its descendants is Outside
C27_SingleCheckAgreesUnlessOverridden ==
    [][\A node \in CheckedNodes :
          SingleCheckStep(node) =>
              /\ (/\ scene[node].cura /\ Classified(node) /\ Ungrouped(node)
                  /\ bv.volume_aabb # NoneBox
                  /\ isGroup(node) => \A d \in getAllChildren(node) : ~OutsideAfterRules(d))
                    => outside'[node] = updateNodeBoundaryCheck(Context).outside[node]
              /\ (bv.volume_aabb = NoneBox \/ ~scene[node].cura)
                    => outside' = outside]_vars

\* the single check flagged the ungrouped object Outside for the border strip it stands
\* on, as the check of all nodes does
C27_Witness ==
    /\ last.ran = "checkBoundsAndUpdate" /\ last.raised = "none"
    /\ bv.volume_aabb # NoneBox
    /\ collidesWithArea(2, bv.disallowed_areas)
    /\ outside[2]
    /\ ~outside[1]
    /\ outside = checkBoundsAndUpdate(Context, 2, NoneBox).outside
    /\ updateNodeBoundaryCheck(Context).outside[2]


----------------------------------------------------------------------------
(* SpecSkirt: getEdgeDisallowedSize on machines that print a skirt or a    *)
(* brim, the user changing the number of skirt lines.                      *)

\* the user asks for 0 to MaxSkirtLines skirt lines
MaxSkirtLines == 3

SkirtLineCounts == 0..MaxSkirtLines

InitSkirt ==
    /\ \E adhesion_type \in {"skirt", "brim"}, sequence \in PrintSequences,
          used \in UsedOrders, draft \in BOOLEAN,
          gap \in {0, 30}, width \in {4, 8}, factor \in {50, 100},
          count \in SkirtLineCounts, width1 \in {4, 6}, factor1 \in {100, 150} :
          settings = [DefaultSettings EXCEPT
                         !.used = used,
                         !.global.adhesion_type = adhesion_type,
                         !.global.print_sequence = sequence,
                         !.global.draft_shield_enabled = draft,
                         !.global.skirt_gap = gap,
                         !.global.skirt_brim_line_width = width,
                         !.global.initial_layer_line_width_factor = factor,
                         !.global.skirt_line_count = count,
                         !.ext["e0"].skirt_brim_line_width = width,
                         !.ext["e0"].initial_layer_line_width_factor = factor,
                         !.ext["e1"].skirt_brim_line_width = width1,
                         !.ext["e1"].initial_layer_line_width_factor = factor1]
    /\ scene = <<>>
    /\ bv = [NewBuildVolume EXCEPT !.global_container_stack = "stack"]
    /\ outside = <<>>
    /\ maximum_bounds = NoneBox
    /\ last = Nothing
    /\ toolbox = NewToolbox
    /\ machine = NewMachine

\* the user changes the number of skirt lines
SetSkirtLineCount ==
    \E count \in SkirtLineCounts :
        /\ settings.global.skirt_line_count # count
        /\ settings' = [settings EXCEPT !.global.skirt_line_count = count]
        /\ Changed
        /\ UNCHANGED <<toolbox, machine, scene, bv, outside, maximum_bounds>>

NextSkirt == SetSkirtLineCount \/ GetEdgeDisallowedSize

SpecSkirt == InitSkirt /\ [][NextSkirt]_vars

\* one line of a stack: its line width scaled by its initial-layer width factor
LineOf(stack_id) ==
    (getProperty(stack_id, "skirt_brim_line_width")
       * getProperty(stack_id, "initial_layer_line_width_factor")) \div 100

RECURSIVE LinesOf(_)
\* the sum of the lines of a set of extruders
LinesOf(stacks) ==
    IF stacks = {} THEN 0
    ELSE LET e == CHOOSE x \in stacks : TRUE IN LineOf(e) + LinesOf(stacks \ {e})

\* the skirt size as C11 states it
SkirtSizeAsStated ==
    getProperty(GlobalId, "skirt_gap")
      + (getProperty(GlobalId, "skirt_brim_line_width")
           * getProperty(GlobalId, "skirt_line_count")
           * getProperty(GlobalId, "initial_layer_line_width_factor")) \div 100
      + LinesOf(Range(getUsedExtruderStacks))
      - LineOf(GlobalId)

\* the machine of the example: gap 3 mm, line width 0.4 mm, 3 lines, factor 100, one used
\* extruder of the same line width, no support, shield, travel avoidance or infill wipe
SkirtExample ==
    /\ getProperty(GlobalId, "adhesion_type") = "skirt"
    /\ getProperty(GlobalId, "skirt_gap") = 30
    /\ getProperty(GlobalId, "skirt_brim_line_width") = 4
    /\ getProperty(GlobalId, "skirt_line_count") = 3
    /\ getProperty(GlobalId, "initial_layer_line_width_factor") = 100
    /\ getUsedExtruderStacks = <<"e0">>
    /\ LineOf("e0") = 4
    /\ ~getProperty(GlobalId, "support_enable")
    /\ EnabledShieldDistances = {}
    /\ MaxOf({0} \cup WallDistances) = 0

\* C11: with adhesion type skirt the edge size is computed from a bed adhesion size of
\* gap + line width * line count * factor/100 + the lines of the used extruders - one
\* global line; on the machine of the example the edge size is 4.2 mm
C11_SkirtSize ==
    EdgeSizeCase /\ getProperty(GlobalId, "adhesion_type") = "skirt" =>
        /\ last.returned = <<Max3(MaxOf({0} \cup WallDistances),
                                  SupportOffsetIfEnabled + FarthestShieldOrZero,
                                  SupportOffsetIfEnabled + SkirtSizeAsStated)>>
        /\ SkirtExample => last.returned = <<42>>

\* the edge size was computed on the machine of the example
C11_Witness == EdgeSizeCase /\ SkirtExample /\ last.returned = <<42>>

\* a step that changes nothing but the number of skirt lines of a machine that prints a
\* skirt, the edge size being computable before and after
SkirtLinesStep ==
    /\ getProperty(GlobalId, "adhesion_type") = "skirt"
    /\ settings' = [settings EXCEPT !.global.skirt_line_count =
                                       settings'.global.skirt_line_count]
    /\ bv' = bv
    /\ getEdgeDisallowedSize(bv).raised = "none"

\* C12: with adhesion type skirt and everything else held fixed, the edge size for n
\* skirt lines is at most the edge size for m skirt lines whenever n <= m
C12_SkirtLinesMonotone ==
    [][SkirtLinesStep =>
          LET n == settings.global.skirt_line_count
              m == settings'.global.skirt_line_count
              before == getEdgeDisallowedSize(bv).value
              after == getEdgeDisallowedSize(bv)'.value
          IN  /\ n <= m => before <= after
              /\ m <= n => after <= before]_vars

\* the edge size was computed for a skirt of several lines, and the lines decide it
C12_Witness ==
    /\ EdgeSizeCase
    /\ getProperty(GlobalId, "adhesion_type") = "skirt"
    /\ getProperty(GlobalId, "skirt_line_count") = MaxSkirtLines
    /\ getProperty(GlobalId, "skirt_brim_line_width") > 0
    /\ last.returned = <<SupportOffsetIfEnabled + SkirtSizeAsStated>>
    /\ last.returned[1] > SupportOffsetIfEnabled + FarthestShieldOrZero

----------------------------------------------------------------------------
(* SpecVolume: the bounds of the build volume.  The application sizes the  *)
(* volume and sets its disallowed areas, the user changes the adhesion     *)
(* type and the retraction hop, and the methods that keep the raft         *)
(* thickness, the extra Z clearance and the bounds are called one by one.  *)

\* the sizes the application hands to setWidth, setHeight and setDepth: those of the
\* machine, one of them 0 or not
VolumeSizes ==
    LET w == getProperty(GlobalId, "machine_width")
        h == getProperty(GlobalId, "machine_height")
        d == getProperty(GlobalId, "machine_depth")
    IN  {<<w, h, d>>, <<0, h, d>>, <<w, 0, d>>, <<w, h, 0>>}

\* the lists handed to setDisallowedAreas: none, a strip of 30 mm along the back, a
\* strip of 4.2 mm along the front and one along the back
GivenAreas ==
    { <<>>,
      << Rect(-1000, 700, 1000, 1000) >>,
      << Rect(-1000, -1000, 1000, -958), Rect(-1000, 958, 1000, 1000) >> }

\* one object in the middle of the plate that reaches up to 0.5 mm under the top
VolumeScene == << Node(0, "sliceable", NodeBox(0, 0, 50, 1995), "e0") >>

InitVolume ==
    /\ settings = DefaultSettings
    /\ scene = VolumeScene
    /\ bv = [NewBuildVolume EXCEPT !.global_container_stack = "stack"]
    /\ outside = [n \in 1..Len(VolumeScene) |-> FALSE]
    /\ maximum_bounds = NoneBox
    /\ last = Nothing
    /\ toolbox = NewToolbox
    /\ machine = NewMachine

\* setWidth, setHeight and setDepth
SetVolumeSize ==
    \E size \in VolumeSizes :
        /\ <<bv.width, bv.height, bv.depth>> # size
        /\ bv' = [bv EXCEPT !.width = size[1], !.height = size[2], !.depth = size[3]]
        /\ Changed
        /\ UNCHANGED <<toolbox, machine, settings, scene, outside, maximum_bounds>>

\* setDisallowedAreas
SetDisallowedAreas ==
    \E areas \in GivenAreas :
        /\ bv.disallowed_areas # areas
        /\ bv' = [bv EXCEPT !.disallowed_areas = areas]
        /\ Changed
        /\ UNCHANGED <<toolbox, machine, settings, scene, outside, maximum_bounds>>

\* the user switches the retraction hop of the first extruder on or off
SetRetractionHop ==
    /\ settings' = [settings EXCEPT !.ext["e0"].retraction_hop_enabled = ~@]
    /\ Changed
    /\ UNCHANGED <<toolbox, machine, scene, bv, outside, maximum_bounds>>

UpdateRaftThickness == Ran("_updateRaftThickness", _updateRaftThickness(Context))

UpdateExtraZClearance == Ran("_updateExtraZClearance", _updateExtraZClearance(Context))

RecalculateBuildVolume == Ran("recalculateBuildVolume", recalculateBuildVolume(Context))

NextVolume ==
    \/ SetVolumeSize
    \/ SetDisallowedAreas
    \/ SetAdhesionType
    \/ SetRetractionHop
    \/ UpdateRaftThickness
    \/ UpdateExtraZClearance
    \/ RecalculateBuildVolume

SpecVolume == InitVolume /\ [][NextVolume]_vars

\* one of width, height and depth is 0
ZeroSize == bv.width = 0 \/ bv.height = 0 \/ bv.depth = 0

\* C15: with width, height or depth 0, recalculateBuildVolume returns without changing
\* the bounding box of the build volume, the maximum scale bounds, the meshes or the
\* outside-build-area flag of any node
C15_ZeroSizeNoChange ==
    [][last'.ran = "recalculateBuildVolume" /\ ZeroSize =>
          /\ last'.raised = "none"
          /\ bv'.volume_aabb = bv.volume_aabb
          /\ maximum_bounds' = maximum_bounds
          /\ bv'.mesh = bv.mesh
          /\ bv'.disallowed_area_mesh = bv.disallowed_area_mesh
          /\ bv'.error_mesh = bv.error_mesh
          /\ outside' = outside]_vars

\* recalculateBuildVolume ran on a volume of width 0 whose box and meshes were built
\* before, for another height under the raft and the hop and for other disallowed areas
C15_Witness ==
    /\ last.ran = "recalculateBuildVolume"
    /\ bv.width = 0 /\ bv.height # 0
    /\ bv.volume_aabb # NoneBox
    /\ bv.volume_aabb[1].top # bv.height - bv.raft_thickness - bv.extra_z_clearance
    /\ bv.disallowed_area_mesh # (bv.disallowed_areas # <<>>)
    /\ maximum_bounds # NoneBox

\* C16: a call of _updateRaftThickness that changes the raft thickness puts the build
\* volume at height -raft thickness, a call that leaves it unchanged does not move the
\* build volume, and after every call the height is -raft thickness, which is 0 when
\* the adhesion type is not raft
C16_RaftMovesVolume ==
    [][last'.ran = "_updateRaftThickness" /\ last'.raised = "none" =>
          /\ bv'.raft_thickness # bv.raft_thickness => bv'.position_y = -bv'.raft_thickness
          /\ bv'.raft_thickness = bv.raft_thickness => bv'.position_y = bv.position_y
          /\ bv'.position_y = -bv'.raft_thickness
          /\ getProperty(GlobalId, "adhesion_type") # "raft" => bv'.raft_thickness = 0]_vars

\* _updateRaftThickness ran after the adhesion type went from raft back to another type:
\* the box still reaches up to the height under the raft, the build volume is back at 0
C16_Witness ==
    /\ last.ran = "_updateRaftThickness"
    /\ bv.raft_thickness = 0 /\ bv.position_y = 0
    /\ bv.volume_aabb # NoneBox
    /\ bv.volume_aabb[1].top < bv.height - bv.extra_z_clearance
    /\ bv.height # 0

\* C18: after recalculateBuildVolume with width, height and depth not 0 the bounding box
\* runs from -width/2 to width/2, from -depth/2 to depth/2 and from -1 mm up to
\* height - raft thickness - extra Z clearance
C18_BoundingBox ==
    last.ran = "recalculateBuildVolume" /\ ~ZeroSize =>
        bv.volume_aabb = << [left |-> -(bv.width \div 2), right |-> bv.width \div 2,
                             back |-> -(bv.depth \div 2), front |-> bv.depth \div 2,
                             bottom |-> -10,
                             top |-> bv.height - bv.raft_thickness - bv.extra_z_clearance] >>

\* the box was built under a raft and a retraction hop
C18_Witness ==
    /\ last.ran = "recalculateBuildVolume" /\ ~ZeroSize
    /\ bv.raft_thickness > 0 /\ bv.extra_z_clearance > 0
    /\ bv.volume_aabb # NoneBox
    /\ bv.volume_aabb[1].top = bv.height - bv.raft_thickness - bv.extra_z_clearance

\* C19: after recalculateBuildVolume the maximum scale bounds lie inside the bed, every
\* side in width moved inward by at least the edge size, every side in depth by at least
\* the edge size plus the largest depth extent of the disallowed areas that are not the
\* skirt's
C19_MaximumBoundsNarrowed ==
    last.ran = "recalculateBuildVolume" /\ last.raised = "none" /\ ~ZeroSize =>
        LET edge == getEdgeDisallowedSize(bv).value
            size == disallowedAreaSize(bv.disallowed_areas)
        IN  /\ maximum_bounds # NoneBox
            /\ maximum_bounds[1].left >= -(bv.width \div 2) + edge
            /\ maximum_bounds[1].right <= bv.width \div 2 - edge
            /\ maximum_bounds[1].back >= -(bv.depth \div 2) + edge + size
            /\ maximum_bounds[1].front <= bv.depth \div 2 - edge - size

----------------------------------------------------------------------------
(* SpecHop: _updateExtraZClearance on machines with and without extruders, *)
(* the user switching the retraction hop of the first extruder.            *)

\* the first extruder hops by -0.5 mm up to 0.5 mm times MaxHopStep, 0.5 mm apart
MaxHopStep == 2

HopDistances == {5 * k : k \in -1..MaxHopStep}

InitHop ==
    /\ \E extruders \in {{}, ExtruderIds}, hop0 \in HopDistances,
          enabled0 \in BOOLEAN, enabled1 \in BOOLEAN, enabled \in BOOLEAN :
          settings = [DefaultSettings EXCEPT
                         !.extruders = extruders,
                         !.used = IF extruders = {} THEN <<>> ELSE @,
                         !.global.retraction_hop_enabled = enabled,
                         !.global.retraction_hop = 30,
                         !.ext["e0"].retraction_hop_enabled = enabled0,
                         !.ext["e0"].retraction_hop = hop0,
                         !.ext["e1"].retraction_hop_enabled = enabled1,
                         !.ext["e1"].retraction_hop = 7]
    /\ scene = <<>>
    /\ bv = [NewBuildVolume EXCEPT !.global_container_stack = "stack"]
    /\ outside = <<>>
    /\ maximum_bounds = NoneBox
    /\ last = Nothing
    /\ toolbox = NewToolbox
    /\ machine = NewMachine

NextHop == SetRetractionHop \/ UpdateExtraZClearance

SpecHop == InitHop /\ [][NextHop]_vars

\* _updateExtraZClearance has run
ExtraZUpdated == last.ran = "_updateExtraZClearance" /\ last.raised = "none"

\* the extruders of the machine that have the retraction hop enabled
HoppingExtruders == {e \in settings.extruders : getProperty(e, "retraction_hop_enabled")}

\* the retraction hop of the global stack if enabled there, else 0
GlobalHop ==
    IF getProperty(GlobalId, "retraction_hop_enabled")
    THEN getProperty(GlobalId, "retraction_hop") ELSE 0

\* C17 as stated: the extra Z clearance is the largest retraction hop of the extruders
\* that hop, 0 if there are extruders and none hops, and the global value only on a
\* machine without extruders
C17_ExtraZIsMaxHop ==
    ExtraZUpdated =>
        bv.extra_z_clearance =
            IF settings.extruders = {} THEN GlobalHop
            ELSE IF HoppingExtruders = {} THEN 0
            ELSE MaxOf({getProperty(e, "retraction_hop") : e \in HoppingExtruders})

\* C17, amended: the same, the largest being taken of 0 and the retraction hops of the
\* extruders that hop
C17_ExtraZIsMaxHopOrZero ==
    ExtraZUpdated =>
        bv.extra_z_clearance =
            IF settings.extruders = {} THEN GlobalHop
            ELSE MaxOf({0} \cup {getProperty(e, "retraction_hop") : e \in HoppingExtruders})

\* the clearance was updated on a machine whose two extruders hop by different
\* distances, the first by more, and whose global stack hops by still another
C17_Witness ==
    /\ ExtraZUpdated
    /\ HoppingExtruders = ExtruderIds
    /\ getProperty("e0", "retraction_hop") > getProperty("e1", "retraction_hop")
    /\ GlobalHop > getProperty("e0", "retraction_hop")
    /\ bv.extra_z_clearance = getProperty("e0", "retraction_hop")

----------------------------------------------------------------------------
(* SpecBlob: _updateDisallowedAreas on a machine whose extruders prime a   *)
(* blob near the front left corner, without a prime tower.                 *)

\* the blobs are primed at (5 + 10k, 5 + 10k) mm, k = 0..MaxBlobStep
MaxBlobStep == 2

BlobPositions == {<<50 + 100 * k, 50 + 100 * k>> : k \in 0..MaxBlobStep}

InitBlob ==
    /\ \E used \in UsedOrders, pos0 \in BlobPositions, pos1 \in BlobPositions,
          blob0 \in BOOLEAN :
          settings = [DefaultSettings EXCEPT
                         !.used = used,
                         !.ext["e0"].prime_blob_enable = blob0,
                         !.ext["e0"].extruder_prime_pos_x = pos0[1],
                         !.ext["e0"].extruder_prime_pos_y = pos0[2],
                         !.ext["e1"].extruder_prime_pos_x = pos1[1],
                         !.ext["e1"].extruder_prime_pos_y = pos1[2]]
    /\ scene = <<>>
    /\ bv = [NewBuildVolume EXCEPT !.global_container_stack = "stack"]
    /\ outside = <<>>
    /\ maximum_bounds = NoneBox
    /\ last = Nothing
    /\ toolbox = NewToolbox
    /\ machine = NewMachine

\* the user switches the prime blob of the first extruder on or off
SetPrimeBlobEnable ==
    /\ settings' = [settings EXCEPT !.ext["e0"].prime_blob_enable = ~@]
    /\ Changed
    /\ UNCHANGED <<toolbox, machine, scene, bv, outside, maximum_bounds>>

UpdateDisallowedAreas == Ran("_updateDisallowedAreas", _updateDisallowedAreas(Context))

NextBlob == SetPrimeBlobEnable \/ UpdateDisallowedAreas

SpecBlob == InitBlob /\ [][NextBlob]_vars

\* the prime-blob polygons of an extruder, for the edge size of the machine
BlobPolygons(e) == Range(primeBlobAreas(getEdgeDisallowedSize(bv).value, e))

\* the polygon overlaps a static area of the extruder, or a prime-blob polygon of
\* another used extruder
BlobOverlaps(e, polygon) ==
    \/ AnyIntersects(<<polygon>>,
          _computeDisallowedAreasStatic(bv, getEdgeDisallowedSize(bv).value, usedOrFallback)[e])
    \/ \E o \in Range(usedOrFallback) \ {e} :
          \E other \in BlobPolygons(o) : intersectsPolygon(polygon, other)

\* C20: after _updateDisallowedAreas the prime-blob polygon of every used extruder is in
\* the disallowed-area list and in the no-brim list, whether it overlaps a static area
\* or another extruder's prime-blob polygon or not; nothing is raised and, the machine
\* having no prime tower, the error list is empty and hasErrors is false
C20_PrimeBlobsAccepted ==
    last.ran = "_updateDisallowedAreas" =>
        /\ last.raised = "none"
        /\ \A e \in Range(usedOrFallback) : \A polygon \in BlobPolygons(e) :
              /\ polygon \in Range(bv.disallowed_areas)
              /\ polygon \in Range(bv.disallowed_areas_no_brim)
        /\ bv.error_areas = <<>>
        /\ ~bv.has_errors

\* the areas were updated for two used extruders whose prime-blob polygons overlap each
\* other and a static area
C20_Witness ==
    /\ last.ran = "_updateDisallowedAreas"
    /\ Len(usedOrFallback) = 2
    /\ \A e \in Range(usedOrFallback) :
          /\ BlobPolygons(e) # {}
          /\ \A polygon \in BlobPolygons(e) :
                BlobOverlaps(e, polygon) /\ polygon \in Range(bv.disallowed_areas)
    /\ \E polygon \in BlobPolygons("e0") : \E other \in BlobPolygons("e1") :
          polygon # other /\ intersectsPolygon(polygon, other)
    /\ \E e \in Range(usedOrFallback) : \E polygon \in BlobPolygons(e) :
          AnyIntersects(<<polygon>>, _computeDisallowedAreasStatic(bv, 0, usedOrFallback)[e])

----------------------------------------------------------------------------
(* SpecTower: _updateDisallowedAreas on a two-nozzle machine with a prime   *)
(* tower, for every list of used extruders the extruder manager may report. *)

\* the lists of used extruders, and the active extruder stack when none is used
UsedAndActive ==
    {<<used, "e0">> : used \in UsedOrders \cup {<<"e1">>}} \cup {<<<<>>, None>>}

InitTower ==
    /\ \E ua \in UsedAndActive, tower \in BOOLEAN, circular \in BOOLEAN,
          pos \in TowerPositions :
          settings = [DefaultSettings EXCEPT !.used = ua[1],
                                             !.active = ua[2],
                                             !.global.prime_tower_enable = tower,
                                             !.global.prime_tower_circular = circular,
                                             !.global.prime_tower_position_x = pos[1],
                                             !.global.prime_tower_position_y = pos[2]]
    /\ scene = <<>>
    /\ bv = [NewBuildVolume EXCEPT !.global_container_stack = "stack"]
    /\ outside = <<>>
    /\ maximum_bounds = NoneBox
    /\ last = Nothing
    /\ toolbox = NewToolbox
    /\ machine = NewMachine

\* the user switches the prime tower on or off
SetPrimeTowerEnable ==
    /\ settings' = [settings EXCEPT !.global.prime_tower_enable = ~@]
    /\ Changed
    /\ UNCHANGED <<toolbox, machine, scene, bv, outside, maximum_bounds>>

NextTower == SetPrimeTowerEnable \/ UpdateDisallowedAreas

SpecTower == InitTower /\ [][NextTower]_vars

\* _updateDisallowedAreas has run to its end
DisallowedAreasUpdated == last.ran = "_updateDisallowedAreas" /\ last.raised = "none"

\* how often a polygon occurs in a list
Occurrences(polygon, list) == Cardinality({i \in 1..Len(list) : list[i] = polygon})

\* C21: with one used extruder, also when the active extruder or the global stack stands
\* in for none, _updateDisallowedAreas puts no prime-tower polygon in the disallowed-area
\* list, the no-brim list or the error-area list, and hasErrors() is false afterwards
C21_SingleExtruderNoTower ==
    last.ran = "_updateDisallowedAreas" /\ Len(usedOrFallback) = 1 =>
        /\ last.raised = "none"
        /\ primeTowerArea \notin Range(bv.disallowed_areas)
        /\ primeTowerArea \notin Range(bv.disallowed_areas_no_brim)
        /\ primeTowerArea \notin Range(bv.error_areas)
        /\ ~bv.has_errors

\* the areas were updated with the prime tower on, no extruder used and none active:
\* the global stack stood in
C21_Witness ==
    /\ DisallowedAreasUpdated
    /\ getProperty(GlobalId, "prime_tower_enable")
    /\ getUsedExtruderStacks = <<>>
    /\ usedOrFallback = <<GlobalId>>
    /\ bv.disallowed_areas # <<>>

\* the brim-aware set of an extruder before the prime tower is placed
BrimAwareSet(e) ==
    LET border == getEdgeDisallowedSize(bv).value
    IN  _computeDisallowedAreasStatic(bv, border, usedOrFallback)[e]
          \o primeBlobAreas(border, e) \o nozzleAreas(border, e).brim

\* more than one extruder is used, the prime tower is on and overlaps no polygon of the
\* brim-aware set of any used extruder
TowerFitsCase ==
    /\ Len(getUsedExtruderStacks) > 1
    /\ getProperty(GlobalId, "prime_tower_enable")
    /\ \A e \in Range(getUsedExtruderStacks) : ~AnyIntersects(<<primeTowerArea>>, BrimAwareSet(e))

\* C22: a prime tower that overlaps nothing is, after _updateDisallowedAreas, in the
\* brim-aware set and in the no-brim set of every used extruder, the error-area list is
\* empty and hasErrors() is false
C22_FittingTowerMerged ==
    DisallowedAreasUpdated /\ TowerFitsCase =>
        /\ Occurrences(primeTowerArea, bv.disallowed_areas) = Len(getUsedExtruderStacks)
        /\ Occurrences(primeTowerArea, bv.disallowed_areas_no_brim) = Len(getUsedExtruderStacks)
        /\ bv.error_areas = <<>>
        /\ ~bv.has_errors

\* the areas were updated for two used extruders and a tower that fits
C22_Witness ==
    /\ DisallowedAreasUpdated
    /\ TowerFitsCase
    /\ Occurrences(primeTowerArea, bv.disallowed_areas) = 2

\* the lists of the same used extruders in every order
Orderings(used) ==
    {order \in [1..Len(used) -> Range(used)] : Range(order) = Range(used)}

\* C26: the lists _updateDisallowedAreas leaves hold the same polygons for every order of
\* the used extruders, and the tower footprint is never both in the disallowed-area list
\* and in the error-area list
C26_OrderIndependent ==
    DisallowedAreasUpdated =>
        /\ \A order \in Orderings(usedOrFallback) :
              LET other == disallowedAreasFor(bv, getEdgeDisallowedSize(bv).value, order)
              IN  /\ Range(other.disallowed_areas) = Range(bv.disallowed_areas)
                  /\ Range(other.disallowed_areas_no_brim) = Range(bv.disallowed_areas_no_brim)
                  /\ Range(other.error_areas) = Range(bv.error_areas)
        /\ ~(/\ primeTowerArea \in Range(bv.disallowed_areas)
              /\ primeTowerArea \in Range(bv.error_areas))

----------------------------------------------------------------------------
(* SpecStatic: the static border strips _updateDisallowedAreas builds for  *)
(* beds of several sizes, on machines with one nozzle or with two nozzles  *)
(* apart, the edge size being the raft margin the user sets.               *)

\* the raft margin is 0 to 4 mm times MaxBorderStep, 4 mm apart
MaxBorderStep == 3

RaftMargins == {40 * k : k \in 0..MaxBorderStep}

\* the extruders of the machine, and the used ones among them
MachinesAndUsed ==
    { <<{"e0"}, <<"e0">> >>, <<ExtruderIds, <<"e0">> >>, <<ExtruderIds, <<"e1">> >>,
      <<ExtruderIds, <<"e0", "e1">> >> }

InitStatic ==
    /\ \E machine_width \in {200, 2000}, machine_depth \in {200, 2000},
          raft_margin \in RaftMargins, mu \in MachinesAndUsed, offsetting \in BOOLEAN,
          offset0 \in {<<0, 0>>, <<50, -50>>}, offset1 \in {<<180, 0>>, <<-180, 100>>} :
          settings = [DefaultSettings EXCEPT
                         !.extruders = mu[1],
                         !.used = mu[2],
                         !.global.machine_width = machine_width,
                         !.global.machine_depth = machine_depth,
                         !.global.adhesion_type = "raft",
                         !.global.raft_margin = raft_margin,
                         !.global.nozzle_offsetting_for_disallowed_areas = offsetting,
                         !.ext["e0"].machine_nozzle_offset_x = offset0[1],
                         !.ext["e0"].machine_nozzle_offset_y = offset0[2],
                         !.ext["e1"].machine_nozzle_offset_x = offset1[1],
                         !.ext["e1"].machine_nozzle_offset_y = offset1[2]]
    /\ scene = <<>>
    /\ bv = [NewBuildVolume EXCEPT !.global_container_stack = "stack"]
    /\ outside = <<>>
    /\ maximum_bounds = NoneBox
    /\ last = Nothing
    /\ toolbox = NewToolbox
    /\ machine = NewMachine

\* the user changes the raft margin
SetRaftMargin ==
    \E raft_margin \in RaftMargins :
        /\ settings.global.raft_margin # raft_margin
        /\ settings' = [settings EXCEPT !.global.raft_margin = raft_margin]
        /\ Changed
        /\ UNCHANGED <<toolbox, machine, scene, bv, outside, maximum_bounds>>

NextStatic == SetRaftMargin \/ UpdateDisallowedAreas

SpecStatic == InitStatic /\ [][NextStatic]_vars

\* the border size the areas are built for
BorderSizeNow == getEdgeDisallowedSize(bv).value

HalfWidth == getProperty(GlobalId, "machine_width") \div 2

HalfDepth == getProperty(GlobalId, "machine_depth") \div 2

RECURSIVE SumOfCross(_)
\* the sum of p x q over a set of sides <<p, q>>
SumOfCross(sides) ==
    IF sides = {} THEN 0
    ELSE LET pq == CHOOSE x \in sides : TRUE
         IN  pq[1][1] * pq[2][2] - pq[2][1] * pq[1][2] + SumOfCross(sides \ {pq})

\* twice the area of a convex polygon
TwiceArea(polygon) == SumOfCross(HullSides(ConvexHull(polygon)))

RECURSIVE TwiceAreaOfAll(_)
\* twice the sum of the areas of a list of polygons
TwiceAreaOfAll(list) ==
    IF list = <<>> THEN 0 ELSE TwiceArea(Head(list)) + TwiceAreaOfAll(Tail(list))

\* a rectangular bed and a machine with a single extruder, whose areas have been updated
SingleExtruderBed ==
    /\ DisallowedAreasUpdated
    /\ bv.shape # "elliptic"
    /\ settings.extruders = {"e0"}
    /\ getUsedExtruderStacks = <<"e0">>

\* C23: on a rectangular bed of width W and depth D with a single extruder, the areas of
\* the four static edge strips sum to b * (2W + 2D) - 4 * b * b for every border size b
\* with 0 < 2b < min(W, D), and for b = 0 there is no strip
C23_StripAreas ==
    SingleExtruderBed =>
        LET b == BorderSizeNow
            W == 2 * HalfWidth
            D == 2 * HalfDepth
            strips == _computeDisallowedAreasStatic(bv, b, getUsedExtruderStacks)["e0"]
        IN  /\ bv.disallowed_areas = strips
            /\ 0 < 2 * b /\ 2 * b < Min2(W, D) =>
                  /\ Len(strips) = 4
                  /\ TwiceAreaOfAll(strips) = 2 * (b * (2 * W + 2 * D) - 4 * b * b)
            /\ b = 0 => strips = <<>>

\* the strips were built 8 mm wide on a bed of 200 mm by 20 mm
C23_Witness ==
    /\ SingleExtruderBed
    /\ BorderSizeNow = 80
    /\ HalfWidth = 1000 /\ HalfDepth = 100
    /\ Len(bv.disallowed_areas) = 4

\* the other extruders whose nozzles limit the reach of this one: none when the machine
\* opts out of nozzle offsetting
OtherNozzles(e) ==
    IF getProperty(GlobalId, "nozzle_offsetting_for_disallowed_areas")
    THEN settings.extruders \ {e} ELSE {}

\* the compensation of each side of the bed for extruder e: the largest amount by which
\* the nozzle of another extruder lies further to that side, 0 if none does
Compensation(e) ==
    LET x(stack) == getProperty(stack, "machine_nozzle_offset_x")
        y(stack) == -getProperty(stack, "machine_nozzle_offset_y")
    IN  [left   |-> MaxOf({0} \cup {x(e) - x(o) : o \in OtherNozzles(e)}),
         right  |-> MaxOf({0} \cup {x(o) - x(e) : o \in OtherNozzles(e)}),
         top    |-> MaxOf({0} \cup {y(e) - y(o) : o \in OtherNozzles(e)}),
         bottom |-> MaxOf({0} \cup {y(o) - y(e) : o \in OtherNozzles(e)})]

\* the list holds the strip between two corners of the bed whose inner edge lies at
\* `inner` on axis `axis`, if the strip has a width, and no strip there if it has none
HasStrip(list, corner1, corner2, axis, inner, width) ==
    LET there == {polygon \in Range(list) : corner1 \in polygon /\ corner2 \in polygon}
    IN  IF width > 0
        THEN \E polygon \in there :
                \A p \in polygon : p[axis] = corner1[axis] \/ p[axis] = inner
        ELSE there = {}

\* C24: on a rectangular bed the inner edge of each of the four static strips of a used
\* extruder lies at the border size plus that side's compensation from the bed edge; the
\* compensation is 0 or more on every side, and 0 on all sides when the machine opts out
\* of nozzle offsetting or has a single extruder
C24_StripInnerEdges ==
    DisallowedAreasUpdated /\ bv.shape # "elliptic" =>
        \A e \in Range(usedOrFallback) :
            LET b == BorderSizeNow
                hw == HalfWidth
                hd == HalfDepth
                comp == Compensation(e)
                strips == _computeDisallowedAreasStatic(bv, b, usedOrFallback)[e]
            IN  /\ Range(strips) \subseteq Range(bv.disallowed_areas)
                /\ HasStrip(strips, Pt(-hw, -hd), Pt(-hw, hd), 1, -hw + b + comp.left,
                            b + comp.left)
                /\ HasStrip(strips, Pt(hw, -hd), Pt(hw, hd), 1, hw - b - comp.right,
                            b + comp.right)
                /\ HasStrip(strips, Pt(-hw, hd), Pt(hw, hd), 2, hd - b - comp.bottom,
                            b + comp.bottom)
                /\ HasStrip(strips, Pt(-hw, -hd), Pt(hw, -hd), 2, -hd + b + comp.top,
                            b + comp.top)
                /\ comp.left >= 0 /\ comp.right >= 0 /\ comp.top >= 0 /\ comp.bottom >= 0
                /\ (\/ ~getProperty(GlobalId, "nozzle_offsetting_for_disallowed_areas")
                    \/ Cardinality(settings.extruders) = 1)
                     => comp = [left |-> 0, right |-> 0, top |-> 0, bottom |-> 0]

\* the strips were built for two used extruders whose nozzles lie apart in both
\* directions, on a machine that offsets its nozzles
C24_Witness ==
    /\ DisallowedAreasUpdated
    /\ Len(getUsedExtruderStacks) = 2
    /\ BorderSizeNow > 0
    /\ Compensation("e0").left > 0 /\ Compensation("e0").top > 0
    /\ Compensation("e1").right > 0 /\ Compensation("e1").bottom > 0
    /\ HalfWidth = 1000 /\ HalfDepth = 1000

----------------------------------------------------------------------------
(* SpecToolbox: the Toolbox plugin. The user opens the package browser,    *)
(* the metadata replies arrive in any order and with any outcome, the user *)
(* queues package updates, and the event loop runs the posted _update      *)
(* calls and delivers the progress of the downloads.                       *)

\* at most MaxUpdates packages are queued or downloaded, and at most MaxUpdates calls
\* of _update are posted to the event loop at a time
MaxUpdates == 2

\* the packages the server knows
RemotePackages == <<"p1", "p2">>

\* a list of a metadata reply: empty, or the packages of the server
DataLists == {<<>>, RemotePackages}

\* what getAllInstalledPackagesInfo returns: the lists by package type, no list
\* standing for a type that is not among the keys
InstalledPackagesInfo ==
    { [plugin |-> <<>>, material |-> <<>>], [plugin |-> <<"p0">>, material |-> <<"m0">>] }

\* the URLs of _onAppInitialized, by type, in the order of the dictionary
RequestUrls ==
    << <<"authors", "/authors">>,
       <<"packages", "/packages">>,
       <<"plugins_showcase", "/showcase">>,
       <<"plugins_available", "/packages?package_type=plugin">>,
       <<"materials_showcase", "/showcase">>,
       <<"materials_available", "/packages?package_type=material">> >>

\* self._request_urls[type]
UrlOf(self, type) ==
    self.request_urls[CHOOSE k \in 1..Len(self.request_urls) : self.request_urls[k][1] = type][2]

\* the download URL of a remote package
DownloadUrl(package_id) == <<"download_url", package_id>>

\* the Toolbox after __init__ and _onAppInitialized
InitToolbox ==
    /\ settings = DefaultSettings
    /\ scene = <<>>
    /\ bv = NewBuildVolume
    /\ outside = <<>>
    /\ maximum_bounds = NoneBox
    /\ last = Nothing
    /\ toolbox = [NewToolbox EXCEPT !.request_urls = RequestUrls]
    /\ machine = NewMachine

\* the handler `name` of the Toolbox ran and left the object as `self`
ToolboxRan(name, self, raised) ==
    /\ toolbox' = self
    /\ last' = [Nothing EXCEPT !.ran = name, !.raised = raised]
    /\ UNCHANGED <<settings, scene, bv, outside, maximum_bounds, machine>>

loadingComplete(self) ==
    LET items == {<<type, self.metadata[type]>> : type \in DOMAIN self.metadata}
        populated == Cardinality({list \in items : Len(list) > 0})
    IN  populated = Cardinality(items)

getRemotePackage(self, package_id) ==
    IF package_id \in Range(self.metadata["packages"]) THEN <<package_id>> ELSE <<>>

startDownload(self, url) ==
    [self EXCEPT !.replies = Append(@, [url |-> url, state |-> "running", connected |-> TRUE]),
                 !.download_reply = <<Len(self.replies) + 1>>,
                 !.download_progress = 0,
                 !.is_downloading = TRUE]

resetDownload(self) ==
    LET reply == self.download_reply
        aborted == IF reply # <<>>
                   THEN [self EXCEPT !.replies[reply[1]].connected = FALSE,
                                     !.replies[reply[1]].state =
                                         IF @ = "running" THEN "aborted" ELSE @]
                   ELSE self
    IN  [aborted EXCEPT !.download_reply = <<>>,
                        !.download_progress = 0,
                        !.is_downloading = FALSE]

\* browsePackages, the first time the browser is opened
BrowsePackages ==
    /\ ~toolbox.network_manager
    /\ \E all_packages \in InstalledPackagesInfo :
          LET requested == [toolbox EXCEPT
                  !.network_manager = TRUE,
                  !.requests = << UrlOf(toolbox, "packages"), UrlOf(toolbox, "authors"),
                                  UrlOf(toolbox, "plugins_showcase"),
                                  UrlOf(toolbox, "materials_showcase") >>]
              plugins == IF all_packages.plugin # <<>>
                         THEN [requested EXCEPT !.metadata["plugins_installed"] =
                                                    all_packages.plugin]
                         ELSE requested
              materials == IF all_packages.material # <<>>
                           THEN [plugins EXCEPT !.metadata["materials_installed"] =
                                                    all_packages.material]
                           ELSE plugins
          IN  ToolboxRan("browsePackages", materials, "none")

\* what a reply to a metadata request may be
ReplyOutcomes == {"TimeoutError", "HostNotFoundError", "404", "errors", "invalid JSON", "data"}

\* _onRequestFinished, for the reply to one of the metadata requests
OnRequestFinished ==
    \E i \in 1..Len(toolbox.requests), outcome \in ReplyOutcomes, data \in DataLists :
        LET url == toolbox.requests[i]
            self == [toolbox EXCEPT !.requests = SubSeq(@, 1, i - 1) \o SubSeq(@, i + 1, Len(@))]
            matching == {k \in 1..Len(self.request_urls) : self.request_urls[k][2] = url}
            type == self.request_urls[MinOf(matching)][1]
            errored == resetDownload([self EXCEPT !.view_page = "errored"])
            applied == IF type \in {"plugins_showcase", "materials_showcase"}
                       THEN [self EXCEPT !.metadata["plugins_showcase"] = data,
                                         !.metadata["materials_showcase"] = data]
                       ELSE [self EXCEPT !.metadata[type] = data]
            after == CASE outcome \in {"TimeoutError", "HostNotFoundError"} -> errored
                       [] matching = {} -> self
                       [] outcome = "404" -> errored
                       [] outcome \in {"errors", "invalid JSON"} -> self
                       [] OTHER -> IF loadingComplete(applied)
                                   THEN [applied EXCEPT !.view_page = "overview"]
                                   ELSE applied
        IN  ToolboxRan("_onRequestFinished", after, "none")

\* update(plugin_id), for a package the user has not asked to update before
Update ==
    \E plugin_id \in Range(RemotePackages) :
        /\ Len(toolbox.to_update) + Len(toolbox.replies) < MaxUpdates
        /\ toolbox.called_later < MaxUpdates
        /\ plugin_id \notin Range(toolbox.to_update)
        /\ \A r \in 1..Len(toolbox.replies) : toolbox.replies[r].url # DownloadUrl(plugin_id)
        /\ ToolboxRan("update", [toolbox EXCEPT !.to_update = Append(@, plugin_id),
                                                !.called_later = @ + 1], "none")

\* _update, when the event loop runs one of the posted calls
RunUpdate ==
    /\ toolbox.called_later > 0
    /\ LET self == [toolbox EXCEPT !.called_later = @ - 1]
           popped == IF self.to_update # <<>> THEN [self EXCEPT !.to_update = Tail(@)] ELSE self
           remote_package == IF self.to_update # <<>>
                             THEN getRemotePackage(self, Head(self.to_update)) ELSE <<>>
           started == IF remote_package # <<>>
                      THEN startDownload(popped, DownloadUrl(remote_package[1])) ELSE popped
           again == IF started.to_update # <<>>
                    THEN [started EXCEPT !.called_later = @ + 1] ELSE started
       IN  IF remote_package # <<>> /\ ~self.network_manager
           THEN ToolboxRan("_update", popped, "AttributeError")
           ELSE ToolboxRan("_update", again, "none")

\* _onDownloadProgress, emitted by a reply that is under way and connected, and
\* _onDownloadComplete with what the package manager makes of the file
OnDownloadProgress ==
    \E r \in 1..Len(toolbox.replies), bytes \in {<<50, 100>>, <<100, 100>>},
       package \in {"licensed", "free"} :
        /\ toolbox.replies[r].state = "running"
        /\ toolbox.replies[r].connected
        /\ LET bytes_sent == bytes[1]
               bytes_total == bytes[2]
               received == IF bytes_total > 0 /\ bytes_sent = bytes_total
                           THEN [toolbox EXCEPT !.replies[r].state = "finished"] ELSE toolbox
               progressed == [received EXCEPT !.download_progress =
                                                  (bytes_sent * 100) \div bytes_total]
               stopped == [progressed EXCEPT !.is_downloading = FALSE]
               reply == stopped.download_reply
               written == [stopped EXCEPT !.replies[reply[1]].connected = FALSE,
                                          !.read = Append(@, <<r, reply[1]>>)]
               installed == [written EXCEPT
                                !.installed = Append(@, written.replies[reply[1]].url),
                                !.restart_required = TRUE]
           IN  IF bytes_total <= 0 THEN ToolboxRan("_onDownloadProgress", received, "none")
               ELSE IF bytes_sent # bytes_total
                    THEN ToolboxRan("_onDownloadProgress", progressed, "none")
               ELSE IF reply = <<>>
                    THEN ToolboxRan("_onDownloadProgress", stopped, "AttributeError")
               ELSE IF package = "free"
                    THEN ToolboxRan("_onDownloadProgress", installed, "none")
               ELSE ToolboxRan("_onDownloadProgress", written, "none")

\* cancelDownload
CancelDownload == ToolboxRan("cancelDownload", resetDownload(toolbox), "none")

NextToolbox ==
    \/ BrowsePackages
    \/ OnRequestFinished
    \/ Update
    \/ RunUpdate
    \/ OnDownloadProgress
    \/ CancelDownload

SpecToolbox == InitToolbox /\ [][NextToolbox]_vars

\* the downloads that are under way
DownloadsInFlight == {r \in 1..Len(toolbox.replies) : toolbox.replies[r].state = "running"}

\* C28: at most one package download is in flight at any time, and the reply read when
\* a download completes is the reply that was started for that download
C28_OneDownloadInFlight ==
    /\ Cardinality(DownloadsInFlight) <= 1
    /\ \A i \in 1..Len(toolbox.read) : toolbox.read[i][1] = toolbox.read[i][2]

\* C30: _onRequestFinished switches the view page from "loading" to "overview" only
\* once every metadata list is filled
C30_OverviewWhenAllLoaded ==
    [][(/\ last'.ran = "_onRequestFinished"
        /\ toolbox.view_page = "loading"
        /\ toolbox'.view_page = "overview")
          => \A type \in Range(MetadataTypes) : toolbox'.metadata[type] # <<>>]_vars

----------------------------------------------------------------------------
(* SpecMachine: the Machine of cura.Core. The user picks variants and      *)
(* materials, and the event loop runs the posted _setNewContainers calls.  *)
(* The collection of extruder stacks comes from the container registry;    *)
(* the code reads it as a list (len, index by number) and as a mapping by  *)
(* position (get by string), so the model has machines of both kinds.      *)

\* the setters run while fewer than MaxPosted calls of _setNewContainers are posted
MaxPosted == 2

VariantNames == {"v1", "v2"}

MaterialIds == {"pla", "abs"}

\* the quality types the registry may find usable for a variant and a material
UsableQualityTypes == {{}, {"normal"}, {"draft", "normal"}}

\* a container change of the queue: the keys of the dictionary, None for a missing key
Change(key, stack, what, container) ==
    [c \in {"stack", "extruder", "variant", "material", "quality", "quality_changes"} |->
        IF c = key THEN stack ELSE IF c = what THEN container ELSE None]

\* the Machine after its stacks have been found (lines 79-95), at rest
InitMachine ==
    /\ settings = DefaultSettings
    /\ scene = <<>>
    /\ bv = NewBuildVolume
    /\ outside = <<>>
    /\ maximum_bounds = NoneBox
    /\ last = Nothing
    /\ toolbox = NewToolbox
    /\ \E kind \in {"list", "mapping"}, quality \in {"empty_quality", "normal"} :
          machine = [NewMachine EXCEPT
              !.global_stack = "global",
              !.extruder_stack_list = [kind |-> kind, stacks |-> <<"e0", "e1">>],
              !.stacks = [stack \in {"global", "e0", "e1"} |->
                             [variant |-> IF stack = "global" THEN "empty_variant" ELSE "v1",
                              material |-> IF stack = "global" THEN "empty_material" ELSE "pla",
                              quality |-> quality,
                              quality_changes |-> "empty_quality_changes"]]]

\* the handler `name` of the Machine ran, left the object as `self` and raised `raised`
MachineRan(name, self, raised) ==
    /\ machine' = self
    /\ last' = [Nothing EXCEPT !.ran = name, !.raised = raised]
    /\ UNCHANGED <<settings, scene, bv, outside, maximum_bounds, toolbox>>

\* stack.getMetaDataEntry("position"), None for the global stack
PositionOf(stack) == CASE stack = "e0" -> <<0>> [] stack = "e1" -> <<1>> [] OTHER -> <<>>

\* what getQualitiesForMachineByName raises over the pending changes: KeyError for a
\* change without the key "stack", TypeError for one of a stack without a position
getQualitiesForMachineByName(pending_container_changes) ==
    LET bad == {i \in 1..Len(pending_container_changes) :
                   \/ pending_container_changes[i]["stack"] = None
                   \/ PositionOf(pending_container_changes[i]["stack"]) = <<>>}
    IN  IF bad = {} THEN "none"
        ELSE IF pending_container_changes[MinOf(bad)]["stack"] = None THEN "KeyError"
        ELSE "TypeError"

\* updateQualityAndQualityChanges, the registry finding the quality types `usable`
updateQualityAndQualityChanges(self, usable) ==
    LET raised == getQualitiesForMachineByName(self.pending_container_changes)
        global == self.stacks[self.global_stack]
        switch_to_quality_changes_name ==
            IF global.quality_changes # "empty_quality_changes"
               /\ global.quality_changes \in usable
            THEN global.quality_changes ELSE None
        switch_to_quality_type ==
            IF switch_to_quality_changes_name # None THEN switch_to_quality_changes_name
            ELSE IF global.quality # "empty_quality" /\ global.quality \in usable
                 THEN global.quality
            ELSE IF usable # {} THEN (IF "draft" \in usable THEN "draft" ELSE "normal")
            ELSE None
        quality == IF switch_to_quality_type = None THEN "empty_quality"
                   ELSE switch_to_quality_type
        quality_changes == IF switch_to_quality_changes_name = None
                           THEN "empty_quality_changes" ELSE switch_to_quality_changes_name
        changesOf(stack) ==
            (IF self.stacks[stack].quality # quality
             THEN <<Change("stack", stack, "quality", quality)>> ELSE <<>>)
              \o (IF self.stacks[stack].quality_changes # quality_changes
                  THEN <<Change("stack", stack, "quality_changes", quality_changes)>>
                  ELSE <<>>)
        of_global == [self EXCEPT !.pending_container_changes = @ \o changesOf(self.global_stack)]
        of_all == [of_global EXCEPT !.pending_container_changes =
                      @ \o changesOf(self.extruder_stack_list.stacks[1])
                        \o changesOf(self.extruder_stack_list.stacks[2]),
                                   !.called_later = @ + 1]
    IN  IF raised # "none" THEN [self |-> self, raised |-> raised]
        ELSE IF self.extruder_stack_list.kind = "mapping"
             THEN [self |-> of_global, raised |-> "AttributeError"]
        ELSE [self |-> of_all, raised |-> "none"]

\* setMaterial(material_id, extruder_position), the specific material of the registry
\* being the material of that id
setMaterial(self, material_id, extruder_position, usable) ==
    LET extruder_stack == self.extruder_stack_list.stacks[extruder_position + 1]
        queued == [self EXCEPT
                      !.pending_container_changes =
                          Append(@, Change("stack", extruder_stack, "material", material_id)),
                      !.called_later = @ + 1]
    IN  IF extruder_position >= Len(self.extruder_stack_list.stacks)
        THEN [self |-> self, raised |-> "none"]
        ELSE IF self.extruder_stack_list.kind = "mapping"
             THEN [self |-> self, raised |-> "KeyError"]
        ELSE IF self.stacks[extruder_stack].material = material_id
             THEN [self |-> self, raised |-> "none"]
        ELSE updateQualityAndQualityChanges(queued, usable)

\* setMaterial, called by the user
SetMaterial ==
    \E material_id \in MaterialIds, extruder_position \in 0..2, usable \in UsableQualityTypes :
        /\ machine.called_later < MaxPosted
        /\ LET result == setMaterial(machine, material_id, extruder_position, usable)
           IN  MachineRan("setMaterial", result.self, result.raised)

\* setVariant(variant_name, extruder_position); its call of setMaterial hands the
\* position over as the material and the material id as the position, and int() of a
\* material id raises ValueError
SetVariant ==
    \E variant_name \in VariantNames \cup {"unknown"}, extruder_position \in 0..2 :
        /\ machine.called_later < MaxPosted
        /\ LET found == extruder_position < Len(machine.extruder_stack_list.stacks)
               extruder_stack == machine.extruder_stack_list.stacks[extruder_position + 1]
               queued == [machine EXCEPT
                             !.pending_container_changes =
                                 Append(@, Change("extruder", extruder_stack, "variant",
                                                  variant_name)),
                             !.called_later = @ + 1]
           IN  IF machine.extruder_stack_list.kind = "list"
               THEN MachineRan("setVariant", machine, "AttributeError")
               ELSE IF ~found \/ variant_name \notin VariantNames
                    THEN MachineRan("setVariant", machine, "none")
               ELSE IF machine.stacks[extruder_stack].variant = variant_name
                    THEN MachineRan("setVariant", machine, "none")
               ELSE MachineRan("setVariant", queued, "ValueError")

RECURSIVE _setNewContainers(_)
\* the loop of _setNewContainers, from the head of the queue on
_setNewContainers(self) ==
    IF self.pending_container_changes = <<>> THEN [self |-> self, raised |-> "none"]
    ELSE LET change == Head(self.pending_container_changes)
             popped == [self EXCEPT !.pending_container_changes = Tail(@)]
             stack == change["stack"]
             set(fields, key) == IF change[key] # None
                                 THEN [fields EXCEPT ![key] = change[key]] ELSE fields
             applied == [popped EXCEPT !.stacks[stack] =
                            set(set(set(set(@, "variant"), "material"), "quality"),
                                "quality_changes")]
         IN  IF stack # None THEN _setNewContainers(applied)
             ELSE IF \E key \in {"variant", "material", "quality", "quality_changes"} :
                        change[key] # None
                  THEN [self |-> popped, raised |-> "AttributeError"]
             ELSE _setNewContainers(popped)

\* _setNewContainers, when the event loop runs one of the posted calls
SetNewContainers ==
    /\ machine.called_later > 0
    /\ LET result == _setNewContainers([machine EXCEPT !.called_later = @ - 1])
       IN  MachineRan("_setNewContainers", result.self, result.raised)

NextMachine == SetVariant \/ SetMaterial \/ SetNewContainers

SpecMachine == InitMachine /\ [][NextMachine]_vars

\* the stack a change was queued for
QueuedFor(change) == IF change["stack"] # None THEN change["stack"] ELSE change["extruder"]

RECURSIVE AppliedInOrder(_, _)
\* the containers of the stacks once the changes are applied, the first one first
AppliedInOrder(stacks, changes) ==
    IF changes = <<>> THEN stacks
    ELSE LET change == Head(changes)
             set(fields, key) == IF change[key] # None
                                 THEN [fields EXCEPT ![key] = change[key]] ELSE fields
         IN  AppliedInOrder([stacks EXCEPT ![QueuedFor(change)] =
                                set(set(set(set(@, "variant"), "material"), "quality"),
                                    "quality_changes")],
                            Tail(changes))

====
